---- MODULE Spec2Model ----
(***************************************************************************)
(* A model of the constraint / validator / interface-field core of the     *)
(* transparent_classroom package                                           *)
(* (src/transparent_classroom/api/interfaces).                             *)
(*                                                                         *)
(* Python values are records [t, n, s, l]: t is the exact type name, n the *)
(* numeric payload in tenths (so that 3.3 and 1.0 are representable next   *)
(* to 1 and True), s the string payload and l the elements of a list.      *)
(* The outcome of a call that may raise is a string: "True", "False", or   *)
(* the name of the exception class that propagates.                        *)
(***************************************************************************)
EXTENDS Integers, Sequences, FiniteSets, TLC

VARIABLES
    cst,            \* SpecConstraint: the constraint under test (self)
    other,          \* SpecConstraint: a second constraint (other)
    arg,            \* SpecConstraint: the value handed to is_valid
    res,            \* SpecConstraint: the last call and what it produced
    constraints,    \* SpecValidator: Validator._constraints
    is_required,    \* SpecValidator: Validator._is_required
    last,           \* SpecValidator: the last operation, its argument and the state before it
    prev,           \* SpecValidator: the value of last before the last operation
    nops,           \* SpecValidator: number of operations applied so far
    fields,         \* SpecInterface: InterfaceFieldSet._fields, in insertion order
    bindings,       \* SpecInterface: the bindings dict handed to validate / the value handed to bind
    outcome,        \* SpecInterface: the last call and what it produced
    heap,           \* SpecFieldSet: the Field, Validator and Constraint objects alive
    fieldset,       \* SpecFieldSet: FieldSet._fields, in insertion order, as references
    copies,         \* SpecFieldSet: the list the last to_list() returned, as references
    sibling,        \* SpecFieldSet: a second FieldSet built from the same list of field objects
    fsout,          \* SpecFieldSet: the last operation and the set as it was before it
    fsops,          \* SpecFieldSet: number of operations applied so far
    model,          \* SpecModel: the model instance m
    mres,           \* SpecModel: the last call and what it produced
    mops,           \* SpecModel: number of assignments applied so far
    payload,        \* SpecDeserializer: the dict data handed to deserialize
    deser,          \* SpecDeserializer: the class whose deserializer is called
    dres,           \* SpecDeserializer: the calls made and what they produced
    dcalls,         \* SpecDeserializer: number of deserialize calls made so far
    client,         \* SpecClient: the Client object
    stack,          \* SpecClient: the frames of the call that is running, innermost last
    wire            \* SpecClient: what the running (or last) call has done so far

fsvars == <<heap, fieldset, copies, sibling, fsout, fsops>>

mvars == <<model, mres, mops>>

dvars == <<payload, deser, dres, dcalls>>

cvars == <<client, stack, wire>>

vars == <<cst, other, arg, res, constraints, is_required, last, prev, nops,
          fields, bindings, outcome, heap, fieldset, copies, sibling, fsout, fsops,
          model, mres, mops,
          payload, deser, dres, dcalls,
          client, stack, wire>>

\* ------------------------------------------------------------------------
\* Bounds of the model
\* ------------------------------------------------------------------------
MaxOps == 3

Bool(b) == IF b THEN "True" ELSE "False"

\* F(v), with v evaluated once and bound to the parameter of F.
With(v, F(_)) == CHOOSE y \in {F(w) : w \in {v}} : TRUE

\* ------------------------------------------------------------------------
\* Python values
\* ------------------------------------------------------------------------
Scalar(t, n, s) == [t |-> t, n |-> n, s |-> s, l |-> <<>>]
None == Scalar("NoneType", 0, "")
PyInt(i) == Scalar("int", 10 * i, "")
PyFloat(tenths) == Scalar("float", tenths, "")
PyBool(b) == Scalar("bool", IF b THEN 10 ELSE 0, "")
PyStr(s) == Scalar("str", 0, s)
PyDate(ordinal) == Scalar("date", ordinal, "")
PyDateTime(ordinal) == Scalar("datetime", ordinal, "")
PyList(l) == [t |-> "list", n |-> 0, s |-> "", l |-> l]
PyDict == Scalar("dict", 0, "")

\* The classes a value of exact type t is an instance of (its MRO, plus the
\* numbers.Number registration of int, float and bool).
Bases(t) ==
    CASE t = "bool" -> {"bool", "int", "Number", "object"}
      [] t = "int" -> {"int", "Number", "object"}
      [] t = "float" -> {"float", "Number", "object"}
      [] t = "datetime" -> {"datetime", "date", "object"}
      [] OTHER -> {t, "object"}

isinstance(v, data_type) == data_type \in Bases(v.t)

IsNumber(v) == v.t \in {"int", "float", "bool"}

RECURSIVE PyEq(_, _)
\* Python's ==: numbers compare by value across int, float and bool; a date
\* never equals a datetime; lists compare elementwise and dicts key by key;
\* an object of a class without __eq__ equals only itself (n is its
\* identity); everything else compares within its own type.
PyEq(a, b) ==
    IF IsNumber(a) /\ IsNumber(b) THEN a.n = b.n
    ELSE IF a.t # b.t THEN FALSE
    ELSE IF a.t = "list"
        THEN /\ Len(a.l) = Len(b.l)
             /\ \A i \in 1..Len(a.l) : PyEq(a.l[i], b.l[i])
    ELSE IF a.t = "dict"
        THEN /\ Len(a.l) = Len(b.l)
             /\ \A i \in 1..Len(a.l) :
                    \E j \in 1..Len(b.l) :
                        a.l[i].k = b.l[j].k /\ PyEq(a.l[i].v, b.l[j].v)
    ELSE a.n = b.n /\ a.s = b.s

\* The strings of the model in the order str.__lt__ gives them.
StrOrder == <<"1", "bad", "false", "true", "x", "y">>
StrRank(s) == CHOOSE i \in 1..Len(StrOrder) : StrOrder[i] = s

\* a < b raises TypeError between a str and a number.
Comparable(a, b) == (IsNumber(a) /\ IsNumber(b)) \/ (a.t = "str" /\ b.t = "str")
PyLt(a, b) == IF a.t = "str" THEN StrRank(a.s) < StrRank(b.s) ELSE a.n < b.n

\* x in list: the first element equal (==) to x decides.
PyIn(x, list) == \E i \in 1..Len(list) : PyEq(list[i], x)

RECURSIVE PySet(_)
\* set(list), kept as the list of the elements that stay: an element equal
\* to an earlier one is dropped, so the first of 1, True, 1.0 is the one kept.
PySet(list) ==
    IF list = <<>> THEN <<>>
    ELSE With(PySet(SubSeq(list, 1, Len(list) - 1)),
              LAMBDA front : IF PyIn(list[Len(list)], front)
                             THEN front ELSE Append(front, list[Len(list)]))

PySetEq(a, b) ==
    /\ \A i \in 1..Len(a) : PyIn(a[i], b)
    /\ \A i \in 1..Len(b) : PyIn(b[i], a)

\* sorted(list) raises TypeError when two elements cannot be ordered.
Sortable(list) == \A i, j \in 1..Len(list) : i # j => Comparable(list[i], list[j])

RECURSIVE sorted(_)
sorted(list) ==
    IF list = <<>> THEN <<>>
    ELSE With(CHOOSE i \in 1..Len(list) : \A j \in 1..Len(list) : ~PyLt(list[j], list[i]),
              LAMBDA m : <<list[m]>> \o sorted([k \in 1..(Len(list) - 1) |->
                                                  IF k < m THEN list[k] ELSE list[k + 1]]))

\* ------------------------------------------------------------------------
\* Constraints (validators/constraints/__init__.py)
\* ------------------------------------------------------------------------
\* The subclasses of ConstraintException (validators/exceptions/__init__.py).
ConstraintException ==
    {"NullFieldException", "NumericValueError", "IntegerValueError",
     "NotGreaterThanValueError", "StringValueError", "DateValueError",
     "DateTimeValueError", "ListValueError", "SelectionValueError"}

\* A constraint object: its class and its attributes.  Classes that do not
\* have an attribute hold "" / None / <<>> in its place.
Constraint(kind, nullable, data_type, exception_type, min_value, options) ==
    [kind |-> kind, nullable |-> nullable, data_type |-> data_type,
     exception_type |-> exception_type, min_value |-> min_value, options |-> options]

IsType(data_type, exception_type, nullable) ==
    Constraint("IsType", nullable, data_type, exception_type, None, <<>>)
IsNumeric(nullable) ==
    Constraint("IsNumeric", nullable, "Number", "NumericValueError", None, <<>>)
IsInteger(nullable) ==
    Constraint("IsInteger", nullable, "int", "IntegerValueError", None, <<>>)
IsGreaterThan(min_value, nullable) ==
    Constraint("IsGreaterThan", nullable, "Number", "NumericValueError", min_value, <<>>)
IsPositiveInteger(nullable) ==
    Constraint("IsPositiveInteger", nullable, "int", "IntegerValueError", PyInt(0), <<>>)
IsBoolean(nullable) ==
    Constraint("IsBoolean", nullable, "", "", None, <<>>)
IsRequired ==
    Constraint("IsRequired", FALSE, "", "", None, <<>>)
IsString(nullable) ==
    Constraint("IsString", nullable, "str", "StringValueError", None, <<>>)
IsDate(nullable) ==
    Constraint("IsDate", nullable, "date", "DateValueError", None, <<>>)
IsDateTime(nullable) ==
    Constraint("IsDateTime", nullable, "datetime", "DateTimeValueError", None, <<>>)
IsList(nullable) ==
    Constraint("IsList", nullable, "list", "ListValueError", None, <<>>)
SelectionConstraint(options, nullable) ==
    Constraint("SelectionConstraint", nullable, "", "", None, options)

\* nullable.setter
SetNullable(c, value) == [c EXCEPT !.nullable = value]

\* What __hash__ hashes: the formatted string, kept as its parts.  raises is
\* TRUE when building the string raises TypeError (sorted() on options that
\* cannot be ordered).
HashOf(fmt, c, min_value, items, raises) ==
    [fmt |-> fmt, cls |-> c.kind, nullable |-> c.nullable,
     min_value |-> min_value, items |-> items, raises |-> raises]

Constraint__hash__(c) == HashOf("base", c, None, <<>>, FALSE)
IsGreaterThan__hash__(c) == HashOf("gt", c, c.min_value, <<>>, FALSE)
SelectionConstraint__hash__(c) ==
    With(PySet(c.options),
         LAMBDA items : IF Sortable(items)
                        THEN HashOf("sel", c, None, sorted(items), FALSE)
                        ELSE HashOf("sel", c, None, <<>>, TRUE))

\* c.__hash__() by method resolution: IsPositiveInteger overrides the
\* IsGreaterThan hash with the base one.
Hash(c) ==
    CASE c.kind = "IsGreaterThan" -> IsGreaterThan__hash__(c)
      [] c.kind = "SelectionConstraint" -> SelectionConstraint__hash__(c)
      [] OTHER -> Constraint__hash__(c)

\* self == other, as "True", "False" or "TypeError".
HashesEqual(h1, h2) ==
    IF h1.raises \/ h2.raises THEN "TypeError" ELSE Bool(h1 = h2)
Constraint__eq__(self, o) ==
    With(HashesEqual(Hash(self), Hash(o)),
         LAMBDA same : IF same = "True" THEN Bool(self.nullable = o.nullable) ELSE same)
SelectionConstraint__eq__(self, o) ==
    IF o.kind = "SelectionConstraint"
       /\ PySetEq(PySet(self.options), PySet(o.options))
       /\ self.nullable = o.nullable
    THEN "True" ELSE "False"
Eq(self, o) ==
    IF self.kind = "SelectionConstraint"
    THEN SelectionConstraint__eq__(self, o)
    ELSE Constraint__eq__(self, o)

\* hash(c1) == hash(c2), as "True", "False" or "TypeError".
HashEq(c1, c2) == HashesEqual(Hash(c1), Hash(c2))

\* ------------------------------------------------------------------------
\* Constraint._is_valid of every class, and Constraint.is_valid
\* ------------------------------------------------------------------------
\* An outcome that is an exception: neither a returned boolean nor the ""
\* of a call that returned nothing.
Raises(out) == out \notin {"True", "False", ""}

IsType_is_valid(c, value, strict) ==
    IF strict /\ ~isinstance(value, c.data_type)
    THEN c.exception_type
    ELSE Bool(isinstance(value, c.data_type))

IsNumeric_is_valid(c, value, strict) ==
    With(IsType_is_valid(c, value, strict),
         LAMBDA is_valid :
             IF is_valid = "True" /\ value # None /\ isinstance(value, "bool")
             THEN IF strict THEN "NumericValueError" ELSE "False"
             ELSE is_valid)

IsInteger_is_valid(c, value, strict) ==
    With(IsNumeric_is_valid(c, value, strict),
         LAMBDA r : IF r = "NumericValueError" THEN "IntegerValueError" ELSE r)

\* The comparison with min_value taken as >= instead of >.
IsGreaterThan_is_valid_AtLeast(c, value, strict) ==
    With(IF c.kind = "IsPositiveInteger"
         THEN IsInteger_is_valid(c, value, strict)
         ELSE IsNumeric_is_valid(c, value, strict),
         LAMBDA is_valid :
             IF is_valid = "True"
             THEN IF value.n >= c.min_value.n THEN "True"
                  ELSE IF strict THEN "NotGreaterThanValueError" ELSE "False"
             ELSE is_valid)

\* super() inside IsGreaterThan is IsNumeric for an IsGreaterThan object and
\* IsInteger for an IsPositiveInteger object (its MRO is IsPositiveInteger,
\* IsGreaterThan, IsInteger, IsNumeric, IsType, Constraint).
IsGreaterThan_is_valid(c, value, strict) ==
    With(IF c.kind = "IsPositiveInteger"
         THEN IsInteger_is_valid(c, value, strict)
         ELSE IsNumeric_is_valid(c, value, strict),
         LAMBDA is_valid :
             IF is_valid = "True"
             THEN IF value.n > c.min_value.n THEN "True"
                  ELSE IF strict THEN "NotGreaterThanValueError" ELSE "False"
             ELSE is_valid)

IsPositiveInteger_is_valid(c, value, strict) ==
    With(IsInteger_is_valid(c, value, strict),
         LAMBDA is_valid : IF is_valid = "True"
                           THEN IsGreaterThan_is_valid(c, value, strict)
                           ELSE is_valid)

\* A predicate that takes native booleans as well as the two strings.
IsBoolean_is_valid_Native(c, value, strict) ==
    IF value # None
    THEN Bool(isinstance(value, "bool")
              \/ (isinstance(value, "str") /\ (value.s = "true" \/ value.s = "false")))
    ELSE "True"

IsBoolean_is_valid(c, value, strict) ==
    IF value # None
    THEN Bool(isinstance(value, "str") /\ (value.s = "true" \/ value.s = "false"))
    ELSE "True"

IsRequired_is_valid(c, value, strict) == Bool(value # None)

IsDate_is_valid(c, value, strict) ==
    With(IsType_is_valid(c, value, strict),
         LAMBDA is_valid :
             IF is_valid = "True" /\ value # None /\ isinstance(value, "datetime")
             THEN IF strict THEN "DateValueError" ELSE "False"
             ELSE is_valid)

\* The membership test alone, without the comparison of types.
ItemSelected_EqOnly(c, item) == PyIn(item, c.options)

\* One item of the SelectionConstraint loop: in the options, and some option
\* equal to it has exactly its type.
ItemSelected(c, item) ==
    /\ PyIn(item, c.options)
    /\ \E i \in 1..Len(c.options) :
           /\ PyEq(c.options[i], item)
           /\ isinstance(item, c.options[i].t)
           /\ isinstance(c.options[i], item.t)

\* value if isinstance(value, list) else [value]
ValueList(value) == IF isinstance(value, "list") THEN value.l ELSE <<value>>

RECURSIVE SelectionLoop(_, _, _)
\* The loop of SelectionConstraint._is_valid over value_list: out is what the
\* loop returns or raises, value the item the SelectionValueError carries.
SelectionLoop(c, value_list, strict) ==
    IF value_list = <<>> THEN [out |-> "True", value |-> None]
    ELSE IF ItemSelected(c, Head(value_list))
    THEN SelectionLoop(c, Tail(value_list), strict)
    ELSE IF strict THEN [out |-> "SelectionValueError", value |-> Head(value_list)]
    ELSE [out |-> "False", value |-> None]

SelectionConstraint_is_valid(c, value, strict) ==
    SelectionLoop(c, ValueList(value), strict).out

\* c._is_valid(value, strict) by method resolution.
Predicate(c, value, strict) ==
    CASE c.kind \in {"IsType", "IsString", "IsDateTime", "IsList"} ->
             IsType_is_valid(c, value, strict)
      [] c.kind = "IsNumeric" -> IsNumeric_is_valid(c, value, strict)
      [] c.kind = "IsInteger" -> IsInteger_is_valid(c, value, strict)
      [] c.kind = "IsGreaterThan" -> IsGreaterThan_is_valid(c, value, strict)
      [] c.kind = "IsPositiveInteger" -> IsPositiveInteger_is_valid(c, value, strict)
      [] c.kind = "IsBoolean" -> IsBoolean_is_valid(c, value, strict)
      [] c.kind = "IsRequired" -> IsRequired_is_valid(c, value, strict)
      [] c.kind = "IsDate" -> IsDate_is_valid(c, value, strict)
      [] c.kind = "SelectionConstraint" -> SelectionConstraint_is_valid(c, value, strict)

\* Constraint.is_valid with the strict test ahead of the nullable test.
Constraint_is_valid_StrictFirst(c, value, strict) ==
    IF value # None
    THEN [out |-> Predicate(c, value, strict), consulted |-> TRUE]
    ELSE IF strict THEN [out |-> "NullFieldException", consulted |-> FALSE]
    ELSE IF c.nullable THEN [out |-> "True", consulted |-> FALSE]
    ELSE [out |-> "False", consulted |-> FALSE]

\* Constraint.is_valid: out is what the call returns or raises, consulted
\* tells whether the subtype predicate _is_valid was called.
Constraint_is_valid(c, value, strict) ==
    IF value # None
    THEN [out |-> Predicate(c, value, strict), consulted |-> TRUE]
    ELSE IF c.nullable THEN [out |-> "True", consulted |-> FALSE]
    ELSE IF strict THEN [out |-> "NullFieldException", consulted |-> FALSE]
    ELSE [out |-> "False", consulted |-> FALSE]

\* SelectionConstraint.is_valid: an empty list is handed on as None.
SelectionConstraint_is_valid_public(c, value, strict) ==
    Constraint_is_valid(
        c, IF isinstance(value, "list") /\ Len(value.l) = 0 THEN None ELSE value, strict)

\* c.is_valid(value, strict) by method resolution.
is_valid(c, value, strict) ==
    IF c.kind = "SelectionConstraint"
    THEN SelectionConstraint_is_valid_public(c, value, strict)
    ELSE Constraint_is_valid(c, value, strict)

\* ------------------------------------------------------------------------
\* Validator (validators/__init__.py).  A validator is the pair of its
\* _constraints list and its _is_required flag; an operation returns the
\* pair it leaves behind and, in raised, the exception that escaped ("" when
\* it returned).
\* ------------------------------------------------------------------------
State(list, flag, raised) == [constraints |-> list, is_required |-> flag, raised |-> raised]

RECURSIVE ListContains(_, _)
\* item in list: the elements are compared in order, element == item, and a
\* comparison that raises ends the search.
ListContains(list, item) ==
    IF list = <<>> THEN "False"
    ELSE With(Eq(Head(list), item),
              LAMBDA e : IF e = "False" THEN ListContains(Tail(list), item) ELSE e)

RECURSIVE ListRemove(_, _)
\* list.remove(item): the first element equal to item goes.
ListRemove(list, item) ==
    IF list = <<>> THEN <<>>
    ELSE IF Eq(Head(list), item) = "True" THEN Tail(list)
    ELSE <<Head(list)>> \o ListRemove(Tail(list), item)

RECURSIVE AddLoop(_, _, _, _)
\* The loop of Validator.add over the constraints handed in.
AddLoop(list, args, flag, change_to_required) ==
    IF args = <<>>
    THEN [constraints |-> list, change |-> change_to_required, raised |-> ""]
    ELSE With(ListContains(list, Head(args)),
              LAMBDA found :
                  IF Raises(found)
                  THEN [constraints |-> list, change |-> change_to_required, raised |-> found]
                  ELSE IF found = "False"
                  THEN AddLoop(Append(list, Head(args)), Tail(args), flag,
                               change_to_required
                                   \/ (Head(args).kind = "IsRequired" /\ ~flag))
                  ELSE AddLoop(list, Tail(args), flag, change_to_required))

RECURSIVE RemoveLoop(_, _, _, _)
\* The loop of Validator.remove over the constraints handed in.
RemoveLoop(list, args, flag, change_to_optional) ==
    IF args = <<>>
    THEN [constraints |-> list, change |-> change_to_optional, raised |-> ""]
    ELSE With(ListContains(list, Head(args)),
              LAMBDA found :
                  IF Raises(found)
                  THEN [constraints |-> list, change |-> change_to_optional, raised |-> found]
                  ELSE IF found = "True"
                  THEN RemoveLoop(ListRemove(list, Head(args)), Tail(args), flag,
                                  change_to_optional
                                      \/ (Head(args).kind = "IsRequired" /\ flag))
                  ELSE RemoveLoop(list, Tail(args), flag, change_to_optional))

\* The first loop of the setter with the negation left out.
ToggleNullable_NotNegated(list, value) ==
    [i \in 1..Len(list) |-> SetNullable(list[i], value)]

\* The first loop of the is_required setter.
ToggleNullable(list, value) == [i \in 1..Len(list) |-> SetNullable(list[i], ~value)]

\* The condition of the setter's elif branch, as the code writes it.
UnsetBranch(list, value) == ~value /\ ListContains(list, IsRequired) = "False"

\* self.add(IsRequired()) and self.remove(IsRequired()) as the setter calls
\* them: _is_required already holds the new value, so neither loop asks for
\* a further change of the flag and the call ends with the loop.
SetterAdd(list, value) ==
    With(AddLoop(list, <<IsRequired>>, value, FALSE),
         LAMBDA r : State(r.constraints, value, r.raised))
SetterRemove(list, value) ==
    With(RemoveLoop(list, <<IsRequired>>, value, FALSE),
         LAMBDA r : State(r.constraints, value, r.raised))

\* Validator.is_required = value
is_required_setter(list, flag, value) ==
    With(ToggleNullable(list, value),
         LAMBDA toggled :
             IF value /\ ListContains(toggled, IsRequired) = "False"
             THEN SetterAdd(toggled, value)
             ELSE IF UnsetBranch(toggled, value)
             THEN SetterRemove(toggled, value)
             ELSE State(toggled, value, ""))

\* Validator.add(constraints)
Validator_add(list, flag, args) ==
    With(AddLoop(list, args, flag, FALSE),
         LAMBDA r : IF Raises(r.raised) THEN State(r.constraints, flag, r.raised)
                    ELSE IF r.change THEN is_required_setter(r.constraints, flag, TRUE)
                    ELSE State(r.constraints, flag, ""))

\* Validator.remove(constraints)
Validator_remove(list, flag, args) ==
    With(RemoveLoop(list, args, flag, FALSE),
         LAMBDA r : IF Raises(r.raised) THEN State(r.constraints, flag, r.raised)
                    ELSE IF r.change THEN is_required_setter(r.constraints, flag, FALSE)
                    ELSE State(r.constraints, flag, ""))

\* Validator.clear()
Validator_clear == State(<<>>, FALSE, "")

\* Validator(constraints, is_required)
Validator(args, flag) == Validator_add(<<>>, flag, args)

RECURSIVE Validator_is_valid_AllEvaluated(_, _, _)
\* A loop that evaluates every constraint and lets the last failure decide.
Validator_is_valid_AllEvaluated(list, value, strict) ==
    IF list = <<>> THEN "True"
    ELSE With(Validator_is_valid_AllEvaluated(Tail(list), value, strict),
              LAMBDA rest : IF rest = "True"
                            THEN is_valid(Head(list), value, strict).out ELSE rest)

RECURSIVE Validator_is_valid(_, _, _)
\* Validator.is_valid(value, strict): "True", "False" or the exception of
\* the first constraint that raises.
Validator_is_valid(list, value, strict) ==
    IF list = <<>> THEN "True"
    ELSE With(is_valid(Head(list), value, strict).out,
              LAMBDA r : IF r = "True"
                         THEN Validator_is_valid(Tail(list), value, strict) ELSE r)

\* item in validator
Validator__contains__(list, item) == ListContains(list, item)

RECURSIVE AllIn(_, _)
AllIn(list, olist) ==
    IF list = <<>> THEN "True"
    ELSE With(Validator__contains__(olist, Head(list)),
              LAMBDA r : IF r = "True" THEN AllIn(Tail(list), olist) ELSE r)

\* validator == other, as "True", "False" or "TypeError".
Validator__eq__(list, olist) ==
    IF Len(list) = Len(olist) THEN AllIn(list, olist) ELSE "False"

\* ------------------------------------------------------------------------
\* Fields and interface fields (fields/__init__.py).  A name is the
\* sequence of the pieces of the string, so that appending the suffix
\* "_interface_field" and str.replace of it are the operations they are.
\* ------------------------------------------------------------------------
Suffix == "_interface_field"

RECURSIVE Replace(_, _)
\* name.replace(piece, ""): every occurrence goes.
Replace(name, piece) ==
    IF name = <<>> THEN <<>>
    ELSE IF Head(name) = piece THEN Replace(Tail(name), piece)
    ELSE <<Head(name)>> \o Replace(Tail(name), piece)

\* Constraint.__copy__ of every class: IsRequired() takes no nullable.
Constraint__copy__(c) == IF c.kind = "IsRequired" THEN IsRequired ELSE c

\* Validator.__copy__
Validator__copy__(list, flag) ==
    Validator([i \in 1..Len(list) |-> Constraint__copy__(list[i])], flag)

\* Field.__init__: the validator is kept and is_required assigned through
\* the validator's setter.
Field__init__(type, name, value, flag, validator) ==
    With(is_required_setter(validator.constraints, validator.is_required, flag),
         LAMBDA v : [type |-> type, name |-> name, value |-> value,
                     validator |-> [constraints |-> v.constraints,
                                    is_required |-> v.is_required]])

\* The constraints the constructor of each Field subclass hands to Validator.
ClassConstraints(type, options) ==
    CASE type \in {"PositiveIntegerField", "ModelIdField"} -> <<IsPositiveInteger(TRUE)>>
      [] type = "StringField" -> <<IsString(TRUE)>>
      [] type = "BooleanField" -> <<IsBoolean(TRUE)>>
      [] type = "DateField" -> <<IsDate(TRUE)>>
      [] type = "DateTimeField" -> <<IsDateTime(TRUE)>>
      [] type = "SelectField" -> <<SelectionConstraint(options, TRUE)>>
      [] type = "MultiSelectField" -> <<SelectionConstraint(options, TRUE), IsList(TRUE)>>
      [] OTHER -> <<>>

\* type(name=..., value=..., is_required=..., options=...)
NewField(type, name, value, flag, options) ==
    With(Validator(ClassConstraints(type, options), FALSE),
         LAMBDA validator : Field__init__(type, name, value, flag, validator))

\* Field.__copy__: no subclass overrides it, and it builds a Field.
Field__copy__(f) ==
    With(Validator__copy__(f.validator.constraints, f.validator.is_required),
         LAMBDA validator :
             Field__init__("Field", f.name, f.value, f.validator.is_required, validator))

InterfaceField(base) == [base |-> base]
InterfaceField_name(ifield) == Append(ifield.base.name, Suffix)
InterfaceField__copy__(ifield) == InterfaceField(Field__copy__(ifield.base))
InterfaceField_is_valid(ifield, value, strict) ==
    Validator_is_valid(ifield.base.validator.constraints, value, strict)

\* The classes whose constructor has a required options parameter.
NeedsOptions(type) == type \in {"SelectField", "MultiSelectField"}

\* The placeholder where no field was built.
NoField == [type |-> "", name |-> <<>>, value |-> None,
            validator |-> [constraints |-> <<>>, is_required |-> FALSE]]

\* InterfaceField.bind(value): raised is the exception that escapes ("" when
\* the call returns), returned is "Field" or "None", field the Field built.
InterfaceField_bind(ifield, value) ==
    With(InterfaceField_is_valid(ifield, value, TRUE),
         LAMBDA ok :
             IF Raises(ok) THEN [raised |-> ok, returned |-> "", field |-> NoField]
             ELSE IF ok = "False"
             THEN [raised |-> "", returned |-> "None", field |-> NoField]
             ELSE IF NeedsOptions(ifield.base.type)
             THEN [raised |-> "TypeError", returned |-> "", field |-> NoField]
             ELSE [raised |-> "", returned |-> "Field",
                   field |-> NewField(ifield.base.type,
                                      Replace(InterfaceField_name(ifield), Suffix),
                                      value, FALSE, <<>>)])

\* ------------------------------------------------------------------------
\* FieldSet / InterfaceFieldSet: _fields is a dict, kept as the list of its
\* (key, field) entries in insertion order.
\* ------------------------------------------------------------------------
Keys(entries) == {entries[i].key : i \in 1..Len(entries)}

\* FieldSet._add: self._fields[field.name] = field
FieldSet_add_one(entries, ifield) ==
    With(InterfaceField_name(ifield),
         LAMBDA key :
             IF key \in Keys(entries)
             THEN [i \in 1..Len(entries) |->
                      IF entries[i].key = key
                      THEN [key |-> key, field |-> ifield] ELSE entries[i]]
             ELSE Append(entries, [key |-> key, field |-> ifield]))

RECURSIVE FieldSet_add(_, _)
\* FieldSet.add(fields) for a list of interface fields
FieldSet_add(entries, list) ==
    IF list = <<>> THEN entries
    ELSE FieldSet_add(FieldSet_add_one(entries, Head(list)), Tail(list))

\* InterfaceFieldSet(fields)
InterfaceFieldSet(list) == FieldSet_add(<<>>, list)

\* FieldSet.to_list()
FieldSet_to_list(entries) ==
    [i \in 1..Len(entries) |-> InterfaceField__copy__(entries[i].field)]

EmptyDict == [k \in {} |-> None]
Lookup(dict, key) == IF key \in DOMAIN dict THEN dict[key] ELSE None
DictSet(dict, key, value) ==
    [k \in (DOMAIN dict) \cup {key} |-> IF k = key THEN value ELSE dict[k]]

\* What strict validation of one field's binding lets through to the
\* result: the call returned True.
Passes(ok) == ok = "True"

\* bindings[key] if key in bindings.keys() else None, for the field's base name
BindingOf(entry, dict) == Lookup(dict, entry.field.base.name)

RECURSIVE ValidateLoop(_, _, _)
\* The loop of InterfaceFieldSet.validate: raised is "" when the loop ends,
\* "InterfaceValidationError" (with the field named) when a
\* ConstraintException was caught, or the exception that escaped.
ValidateLoop(entries, dict, validated_bindings) ==
    IF entries = <<>>
    THEN [raised |-> "", field |-> <<>>, result |-> validated_bindings]
    ELSE With(Validator_is_valid(Head(entries).field.base.validator.constraints,
                                 BindingOf(Head(entries), dict), TRUE),
              LAMBDA ok :
                  IF ok \in ConstraintException
                  THEN [raised |-> "InterfaceValidationError",
                        field |-> Head(entries).field.base.name, result |-> EmptyDict]
                  ELSE IF Raises(ok)
                  THEN [raised |-> ok, field |-> <<>>, result |-> EmptyDict]
                  ELSE IF Passes(ok) /\ BindingOf(Head(entries), dict) # None
                  THEN ValidateLoop(Tail(entries), dict,
                                    DictSet(validated_bindings,
                                            Head(entries).field.base.name,
                                            BindingOf(Head(entries), dict)))
                  ELSE ValidateLoop(Tail(entries), dict, validated_bindings))

\* InterfaceFieldSet.validate(bindings)
InterfaceFieldSet_validate(entries, dict) == ValidateLoop(entries, dict, EmptyDict)

\* ------------------------------------------------------------------------
\* Objects.  A FieldSet holds references to Field objects, a Field a
\* reference to its Validator, a Validator references to its Constraint
\* objects, and the setters assign in place.  h.f, h.v and h.c are the
\* Field, Validator and Constraint objects created so far; a reference is
\* a position in them.
\* ------------------------------------------------------------------------
\* Validator(constraints=[...]) with freshly constructed constraints: the
\* new validator is the last of h.v.
AllocValidator(h, validator) ==
    [h EXCEPT !.c = h.c \o validator.constraints,
              !.v = Append(h.v, [constraints |->
                                     [i \in 1..Len(validator.constraints) |-> Len(h.c) + i],
                                 is_required |-> validator.is_required])]

\* A Field constructor call: the new field, the last of h.f, has a
\* validator and constraints of its own.
AllocField(h, field) ==
    With(AllocValidator(h, field.validator),
         LAMBDA g : [g EXCEPT !.f = Append(g.f, [type |-> field.type, name |-> field.name,
                                                 value |-> field.value,
                                                 validator |-> Len(g.v)])])

\* The validator object vid with its constraints read out.
ValidatorOf(h, vid) ==
    [constraints |-> [i \in 1..Len(h.v[vid].constraints) |-> h.c[h.v[vid].constraints[i]]],
     is_required |-> h.v[vid].is_required]

\* The field object fid with its validator read out.
FieldOf(h, fid) ==
    [type |-> h.f[fid].type, name |-> h.f[fid].name, value |-> h.f[fid].value,
     validator |-> ValidatorOf(h, h.f[fid].validator)]

\* A copy that is a new Field object around the validator of the original.
CopyField_SharedValidator(h, fid) ==
    [h EXCEPT !.f = Append(h.f, [h.f[fid] EXCEPT !.type = "Field"])]

\* field.__copy__(): Field(name, value, validator=self.validator.__copy__(),
\* is_required), the copies of the constraints being new objects as well.
CopyField(h, fid) == AllocField(h, Field__copy__(FieldOf(h, fid)))

\* What the is_required setter leaves in the validator object vid, r being
\* the constraints and flag it computes: the constraint objects already
\* there keep their places (the setter assigns their nullable and removes
\* none), an IsRequired it adds is a new object.
StoreValidator(h, vid, r) ==
    [h EXCEPT
        !.c = [i \in 1..Len(h.c) |->
                  IF \E k \in 1..Len(h.v[vid].constraints) : h.v[vid].constraints[k] = i
                  THEN r.constraints[CHOOSE k \in 1..Len(h.v[vid].constraints) :
                                         h.v[vid].constraints[k] = i]
                  ELSE h.c[i]]
              \o SubSeq(r.constraints, Len(h.v[vid].constraints) + 1, Len(r.constraints)),
        !.v[vid] = [constraints |->
                        h.v[vid].constraints
                        \o [i \in 1..(Len(r.constraints) - Len(h.v[vid].constraints)) |->
                                Len(h.c) + i],
                    is_required |-> r.is_required]]

\* field.is_required = value
Field_set_is_required(h, fid, value) ==
    With(ValidatorOf(h, h.f[fid].validator),
         LAMBDA v : StoreValidator(h, h.f[fid].validator,
                                   is_required_setter(v.constraints, v.is_required, value)))

\* field.value = value and field.name = value
Field_set_value(h, fid, value) == [h EXCEPT !.f[fid].value = value]
Field_set_name(h, fid, value) == [h EXCEPT !.f[fid].name = value]

\* field.is_valid(strict)
Field_is_valid(h, fid, strict) ==
    Validator_is_valid(FieldOf(h, fid).validator.constraints, h.f[fid].value, strict)

\* Field.__eq__(self, other): the names, the values, then the validators.
Field__eq__(self, o) ==
    IF o.name # self.name THEN "False"
    ELSE IF ~PyEq(o.value, self.value) THEN "False"
    ELSE Validator__eq__(self.validator.constraints, o.validator.constraints)

\* FieldSet._add(field) for the field object fid: self._fields[field.name] = field
FieldSet__add(h, entries, fid) ==
    With(h.f[fid].name,
         LAMBDA key :
             IF key \in Keys(entries)
             THEN [i \in 1..Len(entries) |->
                      IF entries[i].key = key THEN [key |-> key, fid |-> fid]
                      ELSE entries[i]]
             ELSE Append(entries, [key |-> key, fid |-> fid]))

RECURSIVE BuildFieldSet(_, _, _)
\* FieldSet(fields=[...]) over newly constructed fields.
BuildFieldSet(h, entries, list) ==
    IF list = <<>> THEN [heap |-> h, entries |-> entries]
    ELSE With(AllocField(h, Head(list)),
              LAMBDA g : BuildFieldSet(g, FieldSet__add(g, entries, Len(g.f)), Tail(list)))

\* The field objects of a field set, in order.
FieldIds(entries) == [i \in 1..Len(entries) |-> entries[i].fid]

RECURSIVE FieldSet_add_objects(_, _, _)
\* FieldSet.add(fields=[...]) over field objects that exist: one _add each.
FieldSet_add_objects(h, entries, fids) ==
    IF fids = <<>> THEN entries
    ELSE FieldSet_add_objects(h, FieldSet__add(h, entries, Head(fids)), Tail(fids))

\* FieldSet._remove(field) for a key bk that is field.name or the str given
FieldSet__remove(entries, bk) == SelectSeq(entries, LAMBDA e : e.key # bk)

\* FieldSet.get(name): the field object stored under name, 0 for None
FieldSet_get(entries, name) ==
    IF name \in Keys(entries)
    THEN entries[CHOOSE i \in 1..Len(entries) : entries[i].key = name].fid
    ELSE 0

RECURSIVE ToListLoop(_, _, _)
\* FieldSet.to_list(): [field.__copy__() for field in self._fields.values()]
ToListLoop(h, entries, list) ==
    IF entries = <<>> THEN [heap |-> h, list |-> list]
    ELSE With(CopyField(h, Head(entries).fid),
              LAMBDA g : ToListLoop(g, Tail(entries), Append(list, Len(g.f))))

RECURSIVE ToJsonLoop(_, _, _)
\* FieldSet.to_json(): data[field.name] = field.value for every field
ToJsonLoop(h, entries, data) ==
    IF entries = <<>> THEN data
    ELSE ToJsonLoop(h, Tail(entries),
                    DictSet(data, h.f[Head(entries).fid].name, h.f[Head(entries).fid].value))

FieldSet_to_json(h, entries) == ToJsonLoop(h, entries, EmptyDict)

\* All there is to observe of a field set: its length, the field stored
\* under each key, to_json() and the validity of every field.
SetState(h, entries) ==
    [len |-> Len(entries),
     fields |-> [i \in 1..Len(entries) |->
                    [key |-> entries[i].key, field |-> FieldOf(h, entries[i].fid)]],
     json |-> FieldSet_to_json(h, entries),
     valid |-> [i \in 1..Len(entries) |->
                   <<Field_is_valid(h, entries[i].fid, FALSE),
                     Field_is_valid(h, entries[i].fid, TRUE)>>]]

\* ------------------------------------------------------------------------
\* The inputs the specifications draw from
\* ------------------------------------------------------------------------
Values ==
    {None, PyInt(1), PyInt(0), PyInt(-5), PyInt(11), PyFloat(33), PyFloat(10),
     PyBool(TRUE), PyBool(FALSE), PyStr("true"), PyStr("false"), PyStr("x"),
     PyStr("1"),
     PyList(<<>>), PyList(<<PyStr("x")>>), PyList(<<PyInt(0), PyInt(1)>>),
     PyList(<<PyInt(1), PyBool(FALSE)>>),
     PyDate(1), PyDateTime(1), PyDict}

MixedOptions == <<PyInt(0), PyBool(TRUE), PyStr("x")>>

\* Constraints as their constructors build them.
Constructed ==
    {IsRequired}
    \cup UNION {{IsType("int", "IntegerValueError", b), IsType("str", "StringValueError", b),
                 IsNumeric(b), IsInteger(b), IsGreaterThan(PyInt(10), b),
                 IsGreaterThan(PyInt(0), b), IsPositiveInteger(b), IsBoolean(b),
                 IsString(b), IsDate(b), IsDateTime(b), IsList(b),
                 SelectionConstraint(MixedOptions, b),
                 SelectionConstraint(<<PyStr("x"), PyStr("y")>>, b),
                 SelectionConstraint(<<PyStr("y"), PyStr("x"), PyStr("x")>>, b),
                 SelectionConstraint(<<PyInt(1)>>, b),
                 SelectionConstraint(<<PyBool(TRUE)>>, b)} : b \in BOOLEAN}

NoRes == [op |-> "none", strict |-> FALSE, out |-> "", consulted |-> FALSE,
          eq |-> "", hasheq |-> ""]

NoLast == [op |-> "none", args |-> <<>>, flag |-> FALSE,
           before |-> State(<<>>, FALSE, ""), raised |-> "",
           value |-> None, strict |-> FALSE, out |-> ""]

NoOutcome == [op |-> "none", raised |-> "", field |-> <<>>, result |-> EmptyDict,
              returned |-> "", bound |-> NoField, target |-> InterfaceField(NoField),
              value |-> None]

\* ------------------------------------------------------------------------
\* Models: JSONModel.to_dict / from_dict, the typed setters and Formatter
\* ------------------------------------------------------------------------
\* An attribute name is the sequence of its chunks, every "_" a chunk of
\* its own: _id is <<"_", "id">>.  A dict (an instance's __dict__, the data
\* handed to from_dict, what to_dict returns) is the sequence of its items
\* [k, v] in insertion order.  An instance is [cls, id, vars]: its class,
\* its identity and its __dict__.

RECURSIVE lstrip(_)
\* key.lstrip("_")
lstrip(key) == IF key # <<>> /\ Head(key) = "_" THEN lstrip(Tail(key)) ELSE key

\* key.startswith(prefix)
startswith(key, prefix) ==
    Len(key) >= Len(prefix) /\ SubSeq(key, 1, Len(prefix)) = prefix

ItemsHas(d, k) == \E i \in 1..Len(d) : d[i].k = k
ItemsGet(d, k) == d[CHOOSE i \in 1..Len(d) : d[i].k = k].v

\* d[k] = v: a key already present keeps its place.
ItemsSet(d, k, v) ==
    IF ItemsHas(d, k)
    THEN [i \in 1..Len(d) |-> IF d[i].k = k THEN [k |-> k, v |-> v] ELSE d[i]]
    ELSE Append(d, [k |-> k, v |-> v])

\* A dict and a model instance as Python values.
PyDictOf(items) == [t |-> "dict", n |-> 0, s |-> "", l |-> items]
PyObject(inst) == [t |-> "object", n |-> inst.id, s |-> inst.cls, l |-> inst.vars]
InstanceOf(value) == [cls |-> value.s, id |-> value.n, vars |-> value.l]

\* What a call returns or raises: exc is "" or the exception's class.
Returned(value) == [exc |-> "", value |-> value]
Raised(exc) == [exc |-> exc, value |-> None]

\* datetime.strptime(value, "%Y-%m-%d").date(): the day the string spells, as
\* an ordinal; 0 stands for the ValueError of a string that does not match.
strptime_date(s) ==
    CASE s = "2020-01-02" -> 1
      [] s = "2020-01-03" -> 2
      [] OTHER -> 0

\* Formatter.str_to_date: None falls through to None, a date (a datetime is
\* one) passes, a str is parsed, anything else is not date-like.
Formatter_str_to_date(value) ==
    IF value = None THEN Returned(None)
    ELSE IF isinstance(value, "date") THEN Returned(value)
    ELSE IF isinstance(value, "str")
        THEN IF strptime_date(value.s) # 0
             THEN Returned(PyDate(strptime_date(value.s)))
             ELSE Raised("ValueError")
    ELSE Raised("ValueError")

\* datetime.strptime(value, "%Y-%m-%dT%H:%M:%S.%f%z"), and without the
\* microseconds when that fails: the instant as an ordinal, 0 for the
\* ValueError of a string that matches neither.
strptime_datetime(s) ==
    CASE s = "2020-01-02T03:04:05.000000+0000" -> 1
      [] s = "2020-01-02T03:04:05+0000" -> 1
      [] s = "2020-01-03T03:04:05.000000+0000" -> 2
      [] OTHER -> 0

\* Formatter.str_to_datetime: as str_to_date, but a date that is no
\* datetime is not datetime-like.
Formatter_str_to_datetime(value) ==
    IF value = None THEN Returned(None)
    ELSE IF isinstance(value, "datetime") THEN Returned(value)
    ELSE IF isinstance(value, "str")
        THEN IF strptime_datetime(value.s) # 0
             THEN Returned(PyDateTime(strptime_datetime(value.s)))
             ELSE Raised("ValueError")
    ELSE Raised("ValueError")

\* The properties ArchetypeInterface.__init__ assigns.
ArchetypeProperties ==
    <<<<"id">>, <<"archetype", "_", "id">>, <<"name">>, <<"type">>, <<"description">>>>

\* The properties with a setter each class declares, in the order __init__
\* assigns them.
Properties(cls) ==
    CASE cls = "Model" -> <<<<"id">>>>
      [] cls = "FormTemplate" -> <<<<"id">>, <<"name">>, <<"widgets">>>>
      [] cls = "Scale" -> <<<<"name">>, <<"values">>>>
      [] cls = "Level" -> <<<<"child", "_", "id">>, <<"lesson", "_", "id">>,
                            <<"proficiency">>, <<"date">>, <<"planned">>>>
      [] cls = "Auth" -> <<<<"school", "_", "id">>, <<"api", "_", "token">>,
                           <<"push", "_", "tokens">>, <<"push", "_", "enabled">>,
                           <<"user">>>>
      [] cls = "ConferenceReport" -> <<<<"id">>, <<"name">>, <<"widgets">>,
                                       <<"child", "_", "id">>>>
      [] cls = "Form" -> <<<<"id">>, <<"form", "_", "template", "_", "id">>, <<"state">>,
                           <<"child", "_", "id">>, <<"fields">>, <<"created", "_", "at">>>>
      [] cls = "OnlineApplication" -> <<<<"id">>, <<"school", "_", "id">>, <<"type">>,
                                        <<"state">>, <<"fields">>>>
      [] cls = "Lesson" -> ArchetypeProperties \o
                           <<<<"lesson", "_", "type">>, <<"material">>, <<"photo">>>>
      [] cls = "Group" -> ArchetypeProperties \o <<<<"subgroups">>, <<"lessons">>>>
      [] cls = "Area" -> ArchetypeProperties \o <<<<"groups">>>>
      [] cls = "LessonSet" -> <<<<"id">>, <<"name">>, <<"type">>, <<"areas">>, <<"scales">>>>
      [] cls = "User" -> <<<<"id">>, <<"type">>, <<"inactive">>, <<"email">>,
                           <<"first", "_", "name">>, <<"last", "_", "name">>, <<"roles">>,
                           <<"accessible", "_", "classroom", "_", "ids">>,
                           <<"default", "_", "classroom", "_", "id">>, <<"street">>,
                           <<"city">>, <<"postal", "_", "code">>,
                           <<"state", "_", "province">>, <<"home", "_", "number">>,
                           <<"mobile", "_", "number">>, <<"work", "_", "number">>>>
      [] OTHER -> <<>>

\* The properties without a setter: Widget.attributes.
ReadOnly(cls) == IF cls = "Widget" THEN {<<"attributes">>} ELSE {}

\* The methods a class has.
Methods(cls) ==
    {<<"to", "_", "dict">>, <<"to", "_", "json">>, <<"from", "_", "dict">>}
        \cup (IF cls = "Widget"
              THEN {<<"get">>, <<"remove">>, <<"set">>, <<"clear">>, <<"reset">>}
              ELSE {})

IsProperty(cls, key) == \E i \in 1..Len(Properties(cls)) : Properties(cls)[i] = key

\* The properties whose setter stores [] for None.
ListProperties(cls) ==
    CASE cls \in {"FormTemplate", "ConferenceReport"} -> {<<"widgets">>}
      [] cls \in {"Form", "OnlineApplication"} -> {<<"fields">>}
      [] cls = "Group" -> {<<"subgroups">>, <<"lessons">>}
      [] cls = "Area" -> {<<"groups">>}
      [] cls = "LessonSet" -> {<<"areas">>, <<"scales">>}
      [] OTHER -> {}

\* What the setter of cls.key stores for value.
Setter(cls, key, value) ==
    IF cls = "Level" /\ key = <<"date">> THEN Formatter_str_to_date(value)
    ELSE IF cls = "Form" /\ key = <<"created", "_", "at">>
        THEN Formatter_str_to_datetime(value)
    ELSE IF key \in ListProperties(cls)
        THEN Returned(IF value = None THEN PyList(<<>>) ELSE value)
    ELSE IF cls = "Scale" /\ key = <<"values">>
        THEN Returned(IF value = None
                      THEN PyList(<<None, None, None, None, None, None>>)
                      ELSE value)
    ELSE Returned(value)

\* hasattr(instance, key), for keys that are no dunder name
hasattr(inst, key) ==
    \/ IsProperty(inst.cls, key)
    \/ key \in ReadOnly(inst.cls)
    \/ key \in Methods(inst.cls)
    \/ ItemsHas(inst.vars, key)

\* setattr(instance, key, value): a property's setter stores in _key, a
\* property without a setter raises, any other name lands in __dict__.
setattr(inst, key, value) ==
    IF IsProperty(inst.cls, key)
    THEN With(Setter(inst.cls, key, value),
              LAMBDA r : IF r.exc # "" THEN [exc |-> r.exc, inst |-> inst]
                         ELSE [exc |-> "",
                               inst |-> [inst EXCEPT !.vars =
                                            ItemsSet(inst.vars, <<"_">> \o key, r.value)]])
    ELSE IF key \in ReadOnly(inst.cls)
        THEN [exc |-> "AttributeError", inst |-> inst]
    ELSE [exc |-> "", inst |-> [inst EXCEPT !.vars = ItemsSet(inst.vars, key, value)]]

RECURSIVE SetAll(_, _)
\* for k, v in items: setattr(instance, k, v), up to the first exception
SetAll(r, items) ==
    IF items = <<>> \/ r.exc # "" THEN r
    ELSE SetAll(setattr(r.inst, Head(items).k, Head(items).v), Tail(items))

\* The name self.__attributes is mangled to inside class Widget.
Widget__attributes == <<"_", "Widget", "_", "_", "attributes">>

\* Widget(attributes): a defaultdict copy of attributes, then one attribute
\* per item.
Widget__init__(id, attributes) ==
    SetAll([exc |-> "",
            inst |-> [cls |-> "Widget", id |-> id,
                      vars |-> <<[k |-> Widget__attributes, v |-> PyDictOf(attributes)]>>]],
           attributes)

\* cls() with every argument left at its default None.
Default(cls, id) ==
    IF cls = "Widget" THEN Widget__init__(id, <<>>).inst
    ELSE SetAll([exc |-> "", inst |-> [cls |-> cls, id |-> id, vars |-> <<>>]],
                [i \in 1..Len(Properties(cls)) |-> [k |-> Properties(cls)[i], v |-> None]]).inst

RECURSIVE JSONModel_to_dict(_)
RECURSIVE ToDictLoop(_, _, _)
\* JSONModel.to_dict: every entry of vars(self) whose name is not mangled
\* with the class's own name, under its name without leading underscores;
\* the items of a list that have a to_dict are converted.
ToDictLoop(inst, rest, data) ==
    IF rest = <<>> THEN data
    ELSE ToDictLoop(inst, Tail(rest),
            IF startswith(Head(rest).k, <<"_", inst.cls, "_", "_">>) THEN data
            ELSE ItemsSet(data, lstrip(Head(rest).k),
                    IF isinstance(Head(rest).v, "list")
                    THEN PyList([i \in 1..Len(Head(rest).v.l) |->
                            IF Head(rest).v.l[i].t = "object"
                            THEN PyDictOf(JSONModel_to_dict(InstanceOf(Head(rest).v.l[i])))
                            ELSE Head(rest).v.l[i]])
                    ELSE Head(rest).v))

JSONModel_to_dict(inst) == ToDictLoop(inst, inst.vars, <<>>)

\* Formatter.date_to_str and datetime_to_str of a date and of a datetime:
\* strftime with "%Y-%m-%d" and with "%Y-%m-%dT%H:%M:%S.%f%z".
strftime(value) ==
    IF value.t = "datetime"
    THEN CASE value.n = 1 -> "2020-01-02T03:04:05.000000+0000"
           [] OTHER -> "2020-01-03T03:04:05.000000+0000"
    ELSE CASE value.n = 1 -> "2020-01-02"
           [] OTHER -> "2020-01-03"

RECURSIVE Formatter_jsonify_value(_)
RECURSIVE JSONModel_to_json(_)
\* Formatter._jsonify_value: what it returns.  A datetime and a date become
\* strings, a dict and a list are converted entry by entry, an object with
\* a to_json is replaced by its to_json(), anything else is returned as is.
Formatter_jsonify_value(value) ==
    IF isinstance(value, "date") THEN PyStr(strftime(value))
    ELSE IF value.t = "dict"
        THEN PyDictOf([i \in 1..Len(value.l) |->
                          [k |-> value.l[i].k, v |-> Formatter_jsonify_value(value.l[i].v)]])
    ELSE IF value.t = "list"
        THEN PyList([i \in 1..Len(value.l) |-> Formatter_jsonify_value(value.l[i])])
    ELSE IF value.t = "object"
        THEN PyDictOf(JSONModel_to_json(InstanceOf(value)))
    ELSE value

\* JSONModel.to_json: Formatter.jsonify(data=self.to_dict()), what it returns.
JSONModel_to_json(inst) ==
    With(JSONModel_to_dict(inst),
         LAMBDA data : [i \in 1..Len(data) |->
                           [k |-> data[i].k, v |-> Formatter_jsonify_value(data[i].v)]])

RECURSIVE AfterToJson(_)
RECURSIVE Touched(_)
\* What to_json() leaves of a value an attribute holds.  jsonify assigns
\* data[key] and value[i] in place: to_dict() hands out a new dict and new
\* lists for the list-valued attributes, but the dicts, the nested lists
\* and the objects they hold are the instance's own.
Touched(value) ==
    IF value.t = "dict" THEN Formatter_jsonify_value(value)
    ELSE IF value.t = "object" THEN PyObject(AfterToJson(InstanceOf(value)))
    ELSE IF value.t = "list"
        THEN PyList([i \in 1..Len(value.l) |->
                        IF value.l[i].t = "object"
                        THEN PyObject(AfterToJson(InstanceOf(value.l[i])))
                        ELSE IF value.l[i].t \in {"dict", "list"}
                            THEN Formatter_jsonify_value(value.l[i])
                        ELSE value.l[i]])
    ELSE value

\* The instance as to_json() leaves it.  The values a Widget holds in
\* __attributes are the objects its attributes hold.
AfterToJson(inst) ==
    [inst EXCEPT !.vars =
        [i \in 1..Len(inst.vars) |->
            IF startswith(inst.vars[i].k, <<"_", inst.cls, "_", "_">>)
            THEN [k |-> inst.vars[i].k,
                  v |-> PyDictOf([j \in 1..Len(inst.vars[i].v.l) |->
                                     [k |-> inst.vars[i].v.l[j].k,
                                      v |-> Touched(inst.vars[i].v.l[j].v)]])]
            ELSE [k |-> inst.vars[i].k, v |-> Touched(inst.vars[i].v)]]]

RECURSIVE FromDictLoop_NoHasattr(_, _)
FromDictLoop_NoHasattr(r, data) ==
    IF data = <<>> \/ r.exc # "" THEN r
    ELSE FromDictLoop_NoHasattr(setattr(r.inst, Head(data).k, Head(data).v), Tail(data))

RECURSIVE FromDictLoop(_, _)
\* for key, value in data.items(): if hasattr(instance, key):
\*     setattr(instance, key, value)
FromDictLoop(r, data) ==
    IF data = <<>> \/ r.exc # "" THEN r
    ELSE FromDictLoop(IF hasattr(r.inst, Head(data).k)
                      THEN setattr(r.inst, Head(data).k, Head(data).v)
                      ELSE r,
                      Tail(data))

\* JSONModel.from_dict: instance = cls(), then the loop; id is the identity
\* of the new instance.
JSONModel_from_dict(cls, id, data) ==
    FromDictLoop([exc |-> "", inst |-> Default(cls, id)], data)

\* Equality of two dicts as Python values.
DictEq(a, b) == PyEq(PyDictOf(a), PyDictOf(b))

\* No instance: what a call that raised returns.
NoModel == [cls |-> "Model", id |-> 0, vars |-> <<>>]

\* ------------------------------------------------------------------------
\* Deserializers: deserialize(data) of every concrete deserializer.  data
\* is the caller's dict: what a deserializer assigns to it or pops from it
\* stays, so a call returns the exception or the object together with data
\* as the call left it.
\* ------------------------------------------------------------------------
Deserialized(exc, inst, data) == [exc |-> exc, inst |-> inst, data |-> data]

\* del d[k], where k may be absent
ItemsDel(d, k) == SelectSeq(d, LAMBDA e : e.k # k)

\* d.get(k, default)
ItemsGetOr(d, k, default) == IF ItemsHas(d, k) THEN ItemsGet(d, k) ELSE default

\* d[to] = d.pop(from, None)
PopInto(d, from, to) == ItemsSet(ItemsDel(d, from), to, ItemsGetOr(d, from, None))

RECURSIVE Join(_)
\* The str a key is.
Join(key) == IF key = <<>> THEN "" ELSE Head(key) \o Join(Tail(key))

\* What data.pop(...) raises when data is no dict: a list has a pop that
\* rejects the arguments, anything else has none.
NotADict(value) == IF value.t = "list" THEN "TypeError" ELSE "AttributeError"

\* Deserializer.deserialize: self._cls.from_dict(data=data)
Deserializer_deserialize(cls, id, data) ==
    With(JSONModel_from_dict(cls, id, data),
         LAMBDA r : Deserialized(r.exc, r.inst, data))

\* Deserializer.batch: data if isinstance(data, list) else [data], then one
\* deserialize per element; rs are their outcomes in order, the first
\* exception propagates.
BatchItems(value) == IF isinstance(value, "list") THEN value.l ELSE <<value>>

Batch(rs) ==
    IF \E i \in 1..Len(rs) : rs[i].exc # ""
    THEN Raised(rs[CHOOSE i \in 1..Len(rs) :
                       rs[i].exc # "" /\ \A j \in 1..(i - 1) : rs[j].exc = ""].exc)
    ELSE Returned(PyList([i \in 1..Len(rs) |-> PyObject(rs[i].inst)]))

\* WidgetDeserializer.deserialize: Widget(attributes=data).  None and an
\* empty list give a Widget without attributes; an object or a number is
\* not iterable.
WidgetDeserializer_deserialize(id, value) ==
    IF value.t = "dict"
    THEN With(Widget__init__(id, value.l), LAMBDA r : Deserialized(r.exc, r.inst, value.l))
    ELSE IF value = None \/ value = PyList(<<>>)
        THEN Deserialized("", Widget__init__(id, <<>>).inst, <<>>)
    ELSE Deserialized("TypeError", NoModel, <<>>)

WidgetDeserializer_batch(id, value) ==
    Batch([i \in 1..Len(BatchItems(value)) |->
              WidgetDeserializer_deserialize(10 * id + i, BatchItems(value)[i])])

\* FormTemplateDeserializer.deserialize
FormTemplateDeserializer_deserialize(id, data) ==
    IF ItemsHas(data, <<"widgets">>)
    THEN With(WidgetDeserializer_batch(id, ItemsGet(data, <<"widgets">>)),
              LAMBDA b : IF b.exc # "" THEN Deserialized(b.exc, NoModel, data)
                         ELSE Deserializer_deserialize("FormTemplate", id,
                                  ItemsSet(data, <<"widgets">>, b.value)))
    ELSE Deserializer_deserialize("FormTemplate", id, data)

\* ConferenceReportDeserializer.deserialize: a new dict formatted_data is
\* what is assigned to and handed on.
ConferenceReportDeserializer_deserialize(id, data) ==
    With(WidgetDeserializer_batch(id, ItemsGetOr(data, <<"data">>, PyList(<<>>))),
         LAMBDA b :
            IF b.exc # "" THEN Deserialized(b.exc, NoModel, data)
            ELSE With(Deserializer_deserialize("ConferenceReport", id,
                         <<[k |-> <<"id">>, v |-> ItemsGetOr(data, <<"id">>, None)],
                           [k |-> <<"name">>, v |-> ItemsGetOr(data, <<"name">>, None)],
                           [k |-> <<"child", "_", "id">>,
                            v |-> ItemsGetOr(data, <<"child", "_", "id">>, None)],
                           [k |-> <<"widgets">>, v |-> b.value]>>),
                      LAMBDA r : Deserialized(r.exc, r.inst, data)))

\* The list of name/value records the question -> answer dict is flattened to.
FieldRecords(answers) ==
    PyList([i \in 1..Len(answers) |->
               PyDictOf(<<[k |-> <<"name">>, v |-> PyStr(Join(answers[i].k))],
                          [k |-> <<"value">>, v |-> answers[i].v]>>)])

\* FormDeserializer.deserialize and OnlineApplicationDeserializer.deserialize:
\* data['fields'].keys() needs a dict.
FormDeserializer_deserialize(cls, id, data) ==
    IF ItemsHas(data, <<"fields">>) /\ ItemsGet(data, <<"fields">>).t # "dict"
    THEN Deserialized("AttributeError", NoModel, data)
    ELSE With(WidgetDeserializer_batch(id,
                 IF ItemsHas(data, <<"fields">>)
                 THEN FieldRecords(ItemsGet(data, <<"fields">>).l)
                 ELSE PyList(<<>>)),
              LAMBDA b : IF b.exc # "" THEN Deserialized(b.exc, NoModel, data)
                         ELSE Deserializer_deserialize(cls, id,
                                  ItemsSet(data, <<"fields">>, b.value)))

\* LessonDeserializer.deserialize
LessonDeserializer_deserialize(id, data) ==
    Deserializer_deserialize("Lesson", id,
        ItemsDel(PopInto(PopInto(data, <<"profile", "_", "photo">>, <<"photo">>),
                         <<"material", "_", "name">>, <<"material">>),
                 <<"children">>))

LessonDeserializer_batch(id, value) ==
    Batch([i \in 1..Len(BatchItems(value)) |->
              IF BatchItems(value)[i].t = "dict"
              THEN LessonDeserializer_deserialize(10 * id + i, BatchItems(value)[i].l)
              ELSE Deserialized(NotADict(BatchItems(value)[i]), NoModel, <<>>)])

RECURSIVE GroupDeserializer_deserialize(_, _)
RECURSIVE GroupDeserializer_batch(_, _)
GroupDeserializer_batch(id, value) ==
    Batch([i \in 1..Len(BatchItems(value)) |->
              IF BatchItems(value)[i].t = "dict"
              THEN GroupDeserializer_deserialize(10 * id + i, BatchItems(value)[i].l)
              ELSE Deserialized(NotADict(BatchItems(value)[i]), NoModel, <<>>)])

\* data['lessons'] = LessonDeserializer().batch(data=data.pop('lessons', []))
\* and the from_dict that follows.
GroupLessons(id, data) ==
    With(LessonDeserializer_batch(id, ItemsGetOr(data, <<"lessons">>, PyList(<<>>))),
         LAMBDA b : IF b.exc # "" THEN Deserialized(b.exc, NoModel, ItemsDel(data, <<"lessons">>))
                    ELSE Deserializer_deserialize("Group", id,
                             ItemsSet(ItemsDel(data, <<"lessons">>), <<"lessons">>, b.value)))

\* GroupDeserializer.deserialize: data.pop('children') has no default.
GroupDeserializer_deserialize(id, data) ==
    IF ~ItemsHas(data, <<"children">>) THEN Deserialized("KeyError", NoModel, data)
    ELSE With(GroupDeserializer_batch(id, ItemsGet(data, <<"children">>)),
              LAMBDA b : IF b.exc # ""
                         THEN Deserialized(b.exc, NoModel, ItemsDel(data, <<"children">>))
                         ELSE GroupLessons(id, ItemsSet(ItemsDel(data, <<"children">>),
                                                        <<"subgroups">>, b.value)))

\* AreaDeserializer.deserialize
AreaDeserializer_deserialize(id, data) ==
    IF ~ItemsHas(data, <<"children">>) THEN Deserialized("KeyError", NoModel, data)
    ELSE With(GroupDeserializer_batch(id, ItemsGet(data, <<"children">>)),
              LAMBDA b : IF b.exc # ""
                         THEN Deserialized(b.exc, NoModel, ItemsDel(data, <<"children">>))
                         ELSE Deserializer_deserialize("Area", id,
                                  ItemsSet(ItemsDel(data, <<"children">>),
                                           <<"groups">>, b.value)))

AreaDeserializer_batch(id, value) ==
    Batch([i \in 1..Len(BatchItems(value)) |->
              IF BatchItems(value)[i].t = "dict"
              THEN AreaDeserializer_deserialize(10 * id + i, BatchItems(value)[i].l)
              ELSE Deserialized(NotADict(BatchItems(value)[i]), NoModel, <<>>)])

\* models.Scale(name=k, values=v) for every item of data['scales']
Scales(id, scales) ==
    PyList([i \in 1..Len(scales) |->
               PyObject(SetAll([exc |-> "",
                                inst |-> [cls |-> "Scale", id |-> 10 * id + i, vars |-> <<>>]],
                               <<[k |-> <<"name">>, v |-> PyStr(Join(scales[i].k))],
                                 [k |-> <<"values">>, v |-> scales[i].v]>>).inst)])

\* data['areas'] = AreaDeserializer().batch(data=data.pop('children')) and
\* the from_dict that follows.
LessonSetAreas(id, data) ==
    IF ~ItemsHas(data, <<"children">>) THEN Deserialized("KeyError", NoModel, data)
    ELSE With(AreaDeserializer_batch(id, ItemsGet(data, <<"children">>)),
              LAMBDA b : IF b.exc # ""
                         THEN Deserialized(b.exc, NoModel, ItemsDel(data, <<"children">>))
                         ELSE Deserializer_deserialize("LessonSet", id,
                                  ItemsSet(ItemsDel(data, <<"children">>),
                                           <<"areas">>, b.value)))

\* LessonSetDeserializer.deserialize: data['scales'].items() needs a dict.
LessonSetDeserializer_deserialize(id, data) ==
    IF ItemsHas(data, <<"scales">>) /\ ItemsGet(data, <<"scales">>).t # "dict"
    THEN Deserialized("AttributeError", NoModel, data)
    ELSE LessonSetAreas(id,
             ItemsSet(data, <<"scales">>,
                      IF ItemsHas(data, <<"scales">>)
                      THEN Scales(id, ItemsGet(data, <<"scales">>).l)
                      ELSE PyList(<<>>)))

auth_properties ==
    {<<"school", "_", "id">>, <<"api", "_", "token">>, <<"push", "_", "tokens">>,
     <<"push", "_", "enabled">>}

\* AuthDeserializer.deserialize: auth_data and user_data are new dicts.
AuthDeserializer_deserialize(id, data) ==
    With(Deserializer_deserialize("User", 10 * id + 1,
                                  SelectSeq(data, LAMBDA e : e.k \notin auth_properties)),
         LAMBDA u :
            IF u.exc # "" THEN Deserialized(u.exc, NoModel, data)
            ELSE With(Deserializer_deserialize("Auth", id,
                         Append(SelectSeq(data, LAMBDA e : e.k \in auth_properties),
                                [k |-> <<"user">>, v |-> PyObject(u.inst)])),
                      LAMBDA r : Deserialized(r.exc, r.inst, data)))

\* deserialize(data) of the deserializer of class cls
deserialize(cls, id, data) ==
    CASE cls \in {"Form", "OnlineApplication"} -> FormDeserializer_deserialize(cls, id, data)
      [] cls = "FormTemplate" -> FormTemplateDeserializer_deserialize(id, data)
      [] cls = "ConferenceReport" -> ConferenceReportDeserializer_deserialize(id, data)
      [] cls = "Lesson" -> LessonDeserializer_deserialize(id, data)
      [] cls = "Group" -> GroupDeserializer_deserialize(id, data)
      [] cls = "Area" -> AreaDeserializer_deserialize(id, data)
      [] cls = "LessonSet" -> LessonSetDeserializer_deserialize(id, data)
      [] cls = "Auth" -> AuthDeserializer_deserialize(id, data)
      [] OTHER -> Deserializer_deserialize(cls, id, data)

\* ------------------------------------------------------------------------
\* Serializer: serialize(obj) and batch(objs).  A mapping is the sequence
\* of its entries [k, str, path]: the object key, whether the interface key
\* is a str, and the interface key as a key path (of one key for a str).
\* ------------------------------------------------------------------------
RECURSIVE get_from_dict(_, _)
\* reduce(operator.getitem, map_list, data_dict), None on any exception
get_from_dict(data_dict, map_list) ==
    IF map_list = <<>> THEN data_dict
    ELSE IF data_dict.t = "dict" /\ ItemsHas(data_dict.l, Head(map_list))
        THEN get_from_dict(ItemsGet(data_dict.l, Head(map_list)), Tail(map_list))
    ELSE None

\* map_list[:-1]
ButLast(map_list) == SubSeq(map_list, 1, Len(map_list) - 1)

RECURSIVE PutAt(_, _, _)
\* get_from_dict(data_dict, map_list[:-1])[map_list[-1]] = v, seen from
\* data_dict: the dicts on the way are data_dict's own.
PutAt(data_dict, map_list, v) ==
    IF Len(map_list) = 1 THEN PyDictOf(ItemsSet(data_dict.l, Head(map_list), v))
    ELSE PyDictOf(ItemsSet(data_dict.l, Head(map_list),
                           PutAt(ItemsGet(data_dict.l, Head(map_list)), Tail(map_list), v)))

RECURSIVE set_in_dict(_, _, _)
\* set_in_dict: an intermediate dict is created where get_from_dict finds
\* none; assigning into what is no dict raises TypeError.
set_in_dict(data_dict, map_list, v) ==
    IF map_list = <<>> THEN Returned(data_dict)
    ELSE With(IF get_from_dict(data_dict, ButLast(map_list)) = None
              THEN set_in_dict(data_dict, ButLast(map_list), PyDictOf(<<>>))
              ELSE Returned(data_dict),
              LAMBDA r : IF r.exc # "" THEN r
                         ELSE IF get_from_dict(r.value, ButLast(map_list)).t # "dict"
                             THEN Raised("TypeError")
                         ELSE Returned(PutAt(r.value, map_list, v)))

RECURSIVE SerializeLoop_KeepNone(_, _, _)
SerializeLoop_KeepNone(mapping, data, r) ==
    IF mapping = <<>> \/ r.exc # "" THEN r
    ELSE SerializeLoop_KeepNone(Tail(mapping), data,
            IF Head(mapping).str
            THEN Returned(PyDictOf(ItemsSet(r.value.l, Head(Head(mapping).path),
                                            ItemsGetOr(data, Head(mapping).k, None))))
            ELSE set_in_dict(r.value, Head(mapping).path,
                             ItemsGetOr(data, Head(mapping).k, None)))

RECURSIVE SerializeLoop(_, _, _)
\* for object_key, interface_key in self.mapping.items(): ...
SerializeLoop(mapping, data, r) ==
    IF mapping = <<>> \/ r.exc # "" THEN r
    ELSE SerializeLoop(Tail(mapping), data,
            IF ItemsGetOr(data, Head(mapping).k, None) = None THEN r
            ELSE IF Head(mapping).str
                THEN Returned(PyDictOf(ItemsSet(r.value.l, Head(Head(mapping).path),
                                                ItemsGet(data, Head(mapping).k))))
            ELSE set_in_dict(r.value, Head(mapping).path, ItemsGet(data, Head(mapping).k)))

\* Serializer.serialize: what it returns or raises.  obj is left as
\* obj.to_json() leaves it.
Serializer_serialize(mapping, obj) ==
    SerializeLoop(mapping, JSONModel_to_json(obj), Returned(PyDictOf(<<>>)))

\* Serializer.batch: objs if isinstance(objs, list) else [objs], then one
\* serialize per element; the first exception propagates.
Serializer_batch(mapping, objs) ==
    With([i \in 1..Len(objs) |-> Serializer_serialize(mapping, objs[i])],
         LAMBDA rs : IF \E i \in 1..Len(rs) : rs[i].exc # ""
                     THEN Raised(rs[CHOOSE i \in 1..Len(rs) :
                                       rs[i].exc # "" /\ \A j \in 1..(i - 1) : rs[j].exc = ""].exc)
                     ELSE Returned(PyList([i \in 1..Len(rs) |-> rs[i].value])))

\* ------------------------------------------------------------------------
\* The client (clients.py) with the interfaces, routes and entry points it
\* is wired to (interfaces.py, routes.py, entry_points.py, apis.py).  A
\* header or parameter dict is a function from names to values, a response
\* body a dict of items as the deserializers take it.
\* ------------------------------------------------------------------------
TokenHeader == <<"X-TransparentClassroomToken">>
MasqueradeHeader == <<"X-TransparentClassroomMasqueradeId">>
SchoolHeader == <<"X-TransparentClassroomSchoolId">>

\* _AUTH_HEADERS: the token is required.
AUTH_HEADERS ==
    <<InterfaceField(NewField("StringField", TokenHeader, None, TRUE, <<>>)),
      InterfaceField(NewField("StringField", MasqueradeHeader, None, FALSE, <<>>)),
      InterfaceField(NewField("StringField", SchoolHeader, None, FALSE, <<>>))>>

\* _PAGING_PARAMETERS
PAGING_PARAMETERS ==
    <<InterfaceField(NewField("PositiveIntegerField", <<"page">>, None, FALSE, <<>>)),
      InterfaceField(NewField("PositiveIntegerField", <<"per_page">>, None, FALSE, <<>>))>>

\* Interface(method, behavior, headers, parameters)
Interface(method, behavior, headers, parameters) ==
    [method |-> method, behavior |-> behavior,
     headers |-> InterfaceFieldSet(headers),
     parameters |-> InterfaceFieldSet(parameters)]

AUTH_INTERFACE ==
    Interface("GET", "SHOW", <<>>,
              <<InterfaceField(NewField("StringField", <<"email">>, None, TRUE, <<>>)),
                InterfaceField(NewField("StringField", <<"password">>, None, TRUE, <<>>))>>)

GET_LESSON_SET_INTERFACE ==
    Interface("GET", "SHOW", AUTH_HEADERS,
              <<InterfaceField(NewField("SelectField", <<"format">>, None, FALSE,
                                        <<PyStr("short"), PyStr("long")>>))>>)

LIST_LEVELS_INTERFACE ==
    Interface("GET", "SHOW_ALL", AUTH_HEADERS,
              <<InterfaceField(NewField("ModelIdField", <<"child_id">>, None, TRUE, <<>>)),
                InterfaceField(NewField("ModelIdField", <<"lesson_set_id">>, None, FALSE,
                                        <<>>))>> \o PAGING_PARAMETERS)

GET_USER_INTERFACE == Interface("GET", "SHOW", AUTH_HEADERS, <<>>)

\* Interface.validate: the headers, then the parameters.
Interface_validate(iface, headers, parameters) ==
    With(InterfaceFieldSet_validate(iface.headers, headers),
         LAMBDA h :
            IF h.raised # ""
            THEN [raised |-> h.raised, field |-> h.field,
                  headers |-> EmptyDict, parameters |-> EmptyDict]
            ELSE With(InterfaceFieldSet_validate(iface.parameters, parameters),
                      LAMBDA p :
                         IF p.raised # ""
                         THEN [raised |-> p.raised, field |-> p.field,
                               headers |-> EmptyDict, parameters |-> EmptyDict]
                         ELSE [raised |-> "", field |-> <<>>,
                               headers |-> h.result, parameters |-> p.result]))

\* The route components of routes.py.
LIST_OBJECT_ROUTE_COMPONENTS == <<"api/v1", "{{ model_name }}">>
GET_OBJECT_ROUTE_COMPONENTS == <<"api/v1", "{{ model_name }}", "{{ object_id }}">>

\* EntryPoint(name, route, interface); model_type is the route's.
EntryPoint(name, model_type, components, interface) ==
    [name |-> name, model_type |-> model_type, components |-> components,
     interface |-> interface]

AUTH_ENTRY_POINT ==
    EntryPoint("AUTH", "authenticate", LIST_OBJECT_ROUTE_COMPONENTS, AUTH_INTERFACE)
GET_LESSON_SET_ENTRY_POINT ==
    EntryPoint("GET_LESSON_SET", "lesson_sets", GET_OBJECT_ROUTE_COMPONENTS,
               GET_LESSON_SET_INTERFACE)
LIST_LEVELS_ENTRY_POINT ==
    EntryPoint("LIST_LEVELS", "levels", LIST_OBJECT_ROUTE_COMPONENTS, LIST_LEVELS_INTERFACE)
GET_USER_ENTRY_POINT ==
    EntryPoint("GET_USER", "users", GET_OBJECT_ROUTE_COMPONENTS, GET_USER_INTERFACE)

\* The entry points apis.api registers, of those the model's calls reach.
api == {AUTH_ENTRY_POINT, GET_LESSON_SET_ENTRY_POINT, LIST_LEVELS_ENTRY_POINT,
        GET_USER_ENTRY_POINT}

NoEntryPoint == EntryPoint("", "", <<>>, Interface("", "", <<>>, <<>>))

\* API.route(model_type, behavior): the entry point registered under the
\* pair, NoEntryPoint for the EntrypointNotFoundException.
API_route(model_type, behavior) ==
    IF \E e \in api : e.model_type = model_type /\ e.interface.behavior = behavior
    THEN CHOOSE e \in api : e.model_type = model_type /\ e.interface.behavior = behavior
    ELSE NoEntryPoint

\* str(v) of a str, an int and None
str(v) ==
    IF v = None THEN PyStr("None")
    ELSE IF v.t = "str" THEN v
    ELSE PyStr(ToString(v.n \div 10))

\* Route.apply(**kwargs): every "{{ k }}" of the path becomes str(kwargs[k]).
Route_apply(components, kwargs) ==
    [i \in 1..Len(components) |->
        IF \E k \in DOMAIN kwargs : components[i] = "{{ " \o Join(k) \o " }}"
        THEN str(kwargs[CHOOSE k \in DOMAIN kwargs :
                            components[i] = "{{ " \o Join(k) \o " }}"]).s
        ELSE components[i]]

\* getattr(instance, key) of a property
getattr(inst, key) == ItemsGet(inst.vars, <<"_">> \o key)

\* Client.token: None if self.__auth is None else self.__auth.api_token
Client_token(c) ==
    IF c.auth = None THEN None
    ELSE getattr(InstanceOf(c.auth), <<"api", "_", "token">>)

\* Client.headers
Client_headers(c) ==
    With([k \in {TokenHeader, MasqueradeHeader, SchoolHeader} |->
             CASE k = TokenHeader -> Client_token(c)
               [] k = MasqueradeHeader -> c.masquerade_id
               [] OTHER -> c.school_id],
         LAMBDA headers :
            [k \in DOMAIN headers |->
                IF headers[k] # None THEN str(headers[k]) ELSE headers[k]])

\* Client.__init__: the email setter is what creates self.__auth.
Client(email, password, masquerade_id, school_id) ==
    [email |-> email, password |-> password, auth |-> None,
     masquerade_id |-> masquerade_id, school_id |-> school_id]

\* The email and password setters as they would be without the reset.
Client_set_KeepsAuth(c, key, value) ==
    IF key = "email" THEN [c EXCEPT !.email = value] ELSE [c EXCEPT !.password = value]

\* The email and password setters: self.__auth = None, then the value.
Client_set(c, key, value) ==
    IF key = "email" THEN [c EXCEPT !.auth = None, !.email = value]
    ELSE [c EXCEPT !.auth = None, !.password = value]

\* Client.host with the default host.
Client_host == "https://www.transparentclassroom.com"

NoContext ==
    [raised |-> "", field |-> <<>>, headers |-> EmptyDict, parameters |-> EmptyDict,
     url |-> <<>>, method |-> ""]

\* The context as it would be with the dicts taken as they come.
Client__get_context_Unvalidated(c, entry_point, parameters, route_parameters) ==
    [raised |-> "", field |-> <<>>,
     headers |-> Client_headers(c), parameters |-> parameters,
     url |-> <<Client_host>> \o Route_apply(entry_point.components,
                   IF Lookup(route_parameters, <<"model_name">>) = None
                   THEN DictSet(route_parameters, <<"model_name">>,
                                PyStr(entry_point.model_type))
                   ELSE route_parameters),
     method |-> entry_point.interface.method]

\* Client.__get_context: the validated headers and parameters, the url and
\* the method; raised is the exception validate lets out.
Client__get_context(c, entry_point, parameters, route_parameters) ==
    With(Interface_validate(entry_point.interface, Client_headers(c), parameters),
         LAMBDA v :
            IF v.raised # "" THEN [NoContext EXCEPT !.raised = v.raised, !.field = v.field]
            ELSE [raised |-> "", field |-> <<>>,
                  headers |-> v.headers, parameters |-> v.parameters,
                  url |-> <<Client_host>> \o Route_apply(entry_point.components,
                                IF Lookup(route_parameters, <<"model_name">>) = None
                                THEN DictSet(route_parameters, <<"model_name">>,
                                             PyStr(entry_point.model_type))
                                ELSE route_parameters),
                  method |-> entry_point.interface.method])

\* What is logged of a call: ev is "call", "validated", "http",
\* "authenticated", "return" or "raise".
NoEvent ==
    [ev |-> "", ep |-> "", held |-> FALSE, headers |-> EmptyDict,
     parameters |-> EmptyDict, auth |-> <<>>, url |-> <<>>, method |-> "",
     token |-> None, exc |-> ""]

Credentials == {<<"email">>, <<"password">>}

\* Client.__request: the call requests.get/post/put receives; email and
\* password leave the parameters for the basic-auth pair.
Client__request(context) ==
    IF Credentials \subseteq DOMAIN context.parameters
    THEN [NoEvent EXCEPT !.ev = "http", !.url = context.url, !.method = context.method,
              !.headers = context.headers,
              !.parameters = [k \in (DOMAIN context.parameters) \ Credentials |->
                                 context.parameters[k]],
              !.auth = <<context.parameters[<<"email">>],
                         context.parameters[<<"password">>]>>]
    ELSE [NoEvent EXCEPT !.ev = "http", !.url = context.url, !.method = context.method,
              !.headers = context.headers, !.parameters = context.parameters]

\* max_per_page of Client.__batch
max_per_page == 1000

\* A response body: kind is "errors" for {"errors": [...]}, "dict" for the
\* object item, and "list" for a list of n objects like item.
Response(kind, item, n) == [kind |-> kind, item |-> item, n |-> n]
NoResponse == Response("", <<>>, 0)

\* One frame of Client.__batch / __get / __access / __submit for one
\* request: pc is "submit" on entry of __submit, "context" before
\* __get_context, "request" before __request and "access" with the response.
Call(model_type, behavior, parameters, route_parameters, cls, mode, paginated) ==
    [fn |-> "call", model_type |-> model_type, behavior |-> behavior,
     parameters |-> parameters, route_parameters |-> route_parameters,
     cls |-> cls, mode |-> mode, paginated |-> paginated,
     pc |-> "submit", context |-> NoContext, data |-> NoResponse]

\* The frame of Client.authenticate: pc is "get" before the authenticate
\* request, "auth" while it runs, "get_user" before get_user and "user"
\* while that runs.
AuthenticateFrame == [Call("", "", EmptyDict, EmptyDict, "", "", FALSE)
                         EXCEPT !.fn = "authenticate", !.pc = "get"]

\* The request of Client.authenticate
AuthenticateCall(c) ==
    Call("authenticate", "SHOW",
         DictSet(DictSet(EmptyDict, <<"email">>, c.email), <<"password">>, c.password),
         EmptyDict, "Auth", "get", FALSE)

\* Client.get_user(user_id)
get_user(user_id) ==
    Call("users", "SHOW", EmptyDict, DictSet(EmptyDict, <<"object_id">>, user_id),
         "User", "get", FALSE)

\* Client.get_lesson_set(lesson_set_id, format)
get_lesson_set(lesson_set_id, format) ==
    Call("lesson_sets", "SHOW", DictSet(EmptyDict, <<"format">>, format),
         DictSet(EmptyDict, <<"object_id">>, lesson_set_id), "LessonSet", "get", FALSE)

\* Client.get_levels(child_id, lesson_set_id): paginated, so __batch sets
\* page and per_page before the first request.
get_levels(child_id, lesson_set_id) ==
    Call("levels", "SHOW_ALL",
         DictSet(DictSet(DictSet(DictSet(EmptyDict, <<"child_id">>, child_id),
                                 <<"lesson_set_id">>, lesson_set_id),
                         <<"page">>, PyInt(1)),
                 <<"per_page">>, PyInt(max_per_page)),
         EmptyDict, "Level", "batch", TRUE)

\* The object deserializer.__getattribute__(parse_mode)(data=data) makes of
\* a response that carries no errors; a list yields one object per record,
\* all alike, of which the first stands for the list.
Parsed(cls, id, data) ==
    IF cls = "Auth" THEN AuthDeserializer_deserialize(id, data.item)
    ELSE IF cls = "LessonSet" THEN LessonSetDeserializer_deserialize(id, data.item)
    ELSE IF data.kind = "list" /\ data.n = 0 THEN Deserialized("", NoModel, data.item)
    ELSE Deserializer_deserialize(cls, id, data.item)

\* ------------------------------------------------------------------------
\* SpecConstraint: one constraint, its nullable setter, is_valid, == and hash
\* ------------------------------------------------------------------------
\* No object, no field set.
EmptyHeap == [f |-> <<>>, v |-> <<>>, c |-> <<>>]

NoSetState == [len |-> 0, fields |-> <<>>, json |-> EmptyDict, valid |-> <<>>]

NoFsOut == [op |-> "none", key |-> <<>>, present |-> FALSE, idx |-> 0,
            before |-> NoSetState, sibling |-> NoSetState]

\* No model instance.
NoMres == [op |-> "none", key |-> <<>>, data |-> <<>>, exc |-> "",
           first |-> <<>>, second |-> <<>>, json |-> <<>>, again |-> <<>>,
           mapping |-> <<>>, objs |-> <<>>, out |-> None]

ModelIdle == model = NoModel /\ mres = NoMres /\ mops = 0

\* No deserialize call.
NoDres == [orig |-> <<>>, before |-> <<>>, exc |-> "", inst |-> NoModel,
           exc1 |-> "", inst1 |-> NoModel]

DeserializerIdle == payload = <<>> /\ deser = "" /\ dres = NoDres /\ dcalls = 0

\* No client.
ClientIdle == client = Client(None, None, None, None) /\ stack = <<>> /\ wire = <<>>

FieldSetIdle ==
    /\ heap = EmptyHeap /\ fieldset = <<>> /\ copies = <<>> /\ sibling = <<>>
    /\ fsout = NoFsOut /\ fsops = 0

ValidatorIdle ==
    /\ constraints = <<>> /\ is_required = FALSE
    /\ last = NoLast /\ prev = NoLast /\ nops = 0
InterfaceIdle == fields = <<>> /\ bindings = EmptyDict /\ outcome = NoOutcome
ConstraintIdle == cst = IsRequired /\ other = IsRequired /\ arg = None /\ res = NoRes

InitConstraint ==
    /\ cst \in Constructed
    /\ other \in Constructed
    /\ arg \in Values
    /\ res = NoRes
    /\ ValidatorIdle
    /\ InterfaceIdle
    /\ FieldSetIdle
    /\ ModelIdle
    /\ DeserializerIdle
    /\ ClientIdle

\* cst.nullable = b
NullableSet ==
    /\ \E b \in BOOLEAN : cst' = SetNullable(cst, b)
    /\ res' = NoRes
    /\ UNCHANGED fsvars
    /\ UNCHANGED mvars
    /\ UNCHANGED dvars
    /\ UNCHANGED cvars
    /\ UNCHANGED <<other, arg, constraints, is_required, last, prev, nops,
                   fields, bindings, outcome>>

\* cst.is_valid(arg, strict)
IsValidCall ==
    /\ \E strict \in BOOLEAN :
          \E r \in {is_valid(cst, arg, strict)} :
              res' = [NoRes EXCEPT !.op = "is_valid", !.strict = strict,
                                   !.out = r.out, !.consulted = r.consulted]
    /\ UNCHANGED fsvars
    /\ UNCHANGED mvars
    /\ UNCHANGED dvars
    /\ UNCHANGED cvars
    /\ UNCHANGED <<cst, other, arg, constraints, is_required, last, prev, nops,
                   fields, bindings, outcome>>

\* cst == other and hash(cst) == hash(other)
EqCall ==
    /\ res' = [NoRes EXCEPT !.op = "eq", !.eq = Eq(cst, other),
                            !.hasheq = HashEq(cst, other)]
    /\ UNCHANGED fsvars
    /\ UNCHANGED mvars
    /\ UNCHANGED dvars
    /\ UNCHANGED cvars
    /\ UNCHANGED <<cst, other, arg, constraints, is_required, last, prev, nops,
                   fields, bindings, outcome>>

NextConstraint == NullableSet \/ IsValidCall \/ EqCall

SpecConstraint == InitConstraint /\ [][NextConstraint]_vars

\* ------------------------------------------------------------------------
\* SpecValidator: one Validator from its constructor on, under add, remove,
\* clear and assignments to is_required
\* ------------------------------------------------------------------------
Unsortable == SelectionConstraint(<<PyInt(0), PyStr("x")>>, TRUE)

\* The constraint lists handed to the constructor, to add and to remove.
ConstructorArgs ==
    {<<>>, <<IsGreaterThan(PyInt(10), TRUE)>>, <<IsString(TRUE), IsString(FALSE)>>,
     <<IsRequired>>, <<Unsortable>>}
AddArgs ==
    {<<IsString(TRUE)>>, <<IsString(FALSE)>>, <<IsRequired>>,
     <<IsGreaterThan(PyInt(10), TRUE)>>, <<IsRequired, Unsortable>>}
RemoveArgs ==
    {<<IsRequired>>, <<IsString(TRUE)>>, <<IsRequired, Unsortable>>}

\* The values handed to Validator.is_valid.
ValidatorValues == {None, PyInt(11), PyInt(1), PyStr("x"), PyBool(TRUE)}

\* The validators the constructor builds from ConstructorArgs.
ConstructedValidators ==
    {v \in {Validator(args, flag) : args \in ConstructorArgs, flag \in BOOLEAN} :
        ~Raises(v.raised)}

\* The constraint lists of the validators another validator is compared
\* with: a constructed validator, or one that add(IsRequired()) was then
\* called on.
OtherValidators ==
    {v.constraints : v \in ConstructedValidators}
    \cup {Validator_add(v.constraints, v.is_required, <<IsRequired>>).constraints :
              v \in ConstructedValidators}

InitValidator ==
    /\ \E args \in ConstructorArgs, flag \in BOOLEAN :
          \E v \in {Validator(args, flag)} :
             /\ ~Raises(v.raised)
             /\ constraints = v.constraints
             /\ is_required = v.is_required
    /\ last = NoLast /\ prev = NoLast /\ nops = 0
    /\ ConstraintIdle
    /\ InterfaceIdle
    /\ FieldSetIdle
    /\ ModelIdle
    /\ DeserializerIdle
    /\ ClientIdle

\* The bookkeeping every operation shares: r is what the operation leaves.
Apply(op, args, flag, r) ==
    /\ nops < MaxOps
    /\ constraints' = r.constraints
    /\ is_required' = r.is_required
    /\ last' = [NoLast EXCEPT !.op = op, !.args = args, !.flag = flag,
                               !.before = State(constraints, is_required, ""),
                               !.raised = r.raised]
    /\ prev' = last
    /\ nops' = nops + 1
    /\ UNCHANGED fsvars
    /\ UNCHANGED mvars
    /\ UNCHANGED dvars
    /\ UNCHANGED cvars
    /\ UNCHANGED <<cst, other, arg, res, fields, bindings, outcome>>

Add == \E args \in AddArgs :
          \E r \in {Validator_add(constraints, is_required, args)} :
              Apply("add", args, FALSE, r)

Remove == \E args \in RemoveArgs :
             \E r \in {Validator_remove(constraints, is_required, args)} :
                 Apply("remove", args, FALSE, r)

Clear == Apply("clear", <<>>, FALSE, Validator_clear)

SetIsRequired == \E value \in BOOLEAN :
                    \E r \in {is_required_setter(constraints, is_required, value)} :
                        Apply("is_required", <<>>, value, r)

\* validator.is_valid(value, strict): the validator is left as it is.
ValidatorIsValid ==
    /\ nops < MaxOps
    /\ \E value \in ValidatorValues, strict \in BOOLEAN :
          \E out \in {Validator_is_valid(constraints, value, strict)} :
              last' = [NoLast EXCEPT !.op = "is_valid", !.value = value,
                                     !.strict = strict, !.out = out,
                                     !.raised = IF Raises(out) THEN out ELSE "",
                                     !.before = State(constraints, is_required, "")]
    /\ prev' = last
    /\ nops' = nops + 1
    /\ UNCHANGED fsvars
    /\ UNCHANGED mvars
    /\ UNCHANGED dvars
    /\ UNCHANGED cvars
    /\ UNCHANGED <<constraints, is_required, cst, other, arg, res,
                   fields, bindings, outcome>>

\* validator == other for another validator: args holds the other
\* validator's constraints, out what the comparison returned or raised.
ValidatorEq ==
    /\ nops < MaxOps
    /\ \E olist \in OtherValidators :
          \E out \in {Validator__eq__(constraints, olist)} :
              last' = [NoLast EXCEPT !.op = "eq", !.args = olist, !.out = out,
                                     !.raised = IF Raises(out) THEN out ELSE "",
                                     !.before = State(constraints, is_required, "")]
    /\ prev' = last
    /\ nops' = nops + 1
    /\ UNCHANGED fsvars
    /\ UNCHANGED mvars
    /\ UNCHANGED dvars
    /\ UNCHANGED cvars
    /\ UNCHANGED <<constraints, is_required, cst, other, arg, res,
                   fields, bindings, outcome>>

\* validator.__copy__(): args and flag hold the copy's constraints and its
\* is_required, out what copy == validator returned or raised.
ValidatorCopy ==
    /\ nops < MaxOps
    /\ \E copy \in {Validator__copy__(constraints, is_required)} :
          last' = [NoLast EXCEPT !.op = "copy", !.args = copy.constraints,
                                 !.flag = copy.is_required,
                                 !.out = Validator__eq__(copy.constraints, constraints),
                                 !.raised = copy.raised,
                                 !.before = State(constraints, is_required, "")]
    /\ prev' = last
    /\ nops' = nops + 1
    /\ UNCHANGED fsvars
    /\ UNCHANGED mvars
    /\ UNCHANGED dvars
    /\ UNCHANGED cvars
    /\ UNCHANGED <<constraints, is_required, cst, other, arg, res,
                   fields, bindings, outcome>>

NextValidator ==
    \/ Add \/ Remove \/ Clear \/ SetIsRequired \/ ValidatorIsValid \/ ValidatorEq
    \/ ValidatorCopy

SpecValidator == InitValidator /\ [][NextValidator]_vars

\* ------------------------------------------------------------------------
\* SpecInterface: one InterfaceFieldSet, validate(bindings) on it and bind
\* on its fields and on the copies to_list() hands out
\* ------------------------------------------------------------------------
\* Interface fields of the kinds interfaces.py declares: a model id, a
\* boolean, a required string, a date and a select field whose two options
\* ("short", "long" in GET_LESSON_SET_INTERFACE) are written x and y.
InterfaceFields ==
    {InterfaceField(NewField("ModelIdField", <<"id">>, None, FALSE, <<>>)),
     InterfaceField(NewField("BooleanField", <<"only_current">>, None, FALSE, <<>>)),
     InterfaceField(NewField("StringField", <<"email">>, None, TRUE, <<>>)),
     InterfaceField(NewField("DateField", <<"as_of">>, None, FALSE, <<>>)),
     InterfaceField(NewField("SelectField", <<"format">>, None, FALSE,
                             <<PyStr("x"), PyStr("y")>>))}

\* The lists handed to InterfaceFieldSet(fields): up to two interface fields.
FieldLists ==
    {<<>>} \cup {<<f>> : f \in InterfaceFields}
           \cup {<<f, g>> : f \in InterfaceFields, g \in InterfaceFields}

Binding(key, value) == [k \in {key} |-> value]

\* The bindings handed to validate.
BindingDicts ==
    {EmptyDict}
    \cup {Binding(<<"id">>, v) : v \in {PyInt(3), PyStr("bad"), None}}
    \cup {Binding(<<"only_current">>, v) : v \in {PyStr("true"), PyStr("bad"), PyBool(TRUE)}}
    \cup {DictSet(Binding(<<"email">>, PyStr("x")), k, PyInt(1)) :
              k \in {<<"id">>, <<"zz">>, <<"only_current">>}}
    \cup {DictSet(Binding(<<"email">>, PyStr("x")), <<"format">>, v) :
              v \in {PyStr("x"), PyStr("bad"), PyList(<<>>)}}

BindValues ==
    {None, PyInt(3), PyInt(0), PyStr("x"), PyStr("true"), PyStr("bad"), PyBool(TRUE),
     PyDate(1), PyDateTime(1)}

InitInterface ==
    /\ \E list \in FieldLists : fields = InterfaceFieldSet(list)
    /\ bindings \in BindingDicts
    /\ outcome = NoOutcome
    /\ ConstraintIdle
    /\ ValidatorIdle
    /\ FieldSetIdle
    /\ ModelIdle
    /\ DeserializerIdle
    /\ ClientIdle

\* fields.validate(bindings)
ValidateCall ==
    /\ \E r \in {InterfaceFieldSet_validate(fields, bindings)} :
          outcome' = [NoOutcome EXCEPT !.op = "validate", !.raised = r.raised,
                                       !.field = r.field, !.result = r.result]
    /\ UNCHANGED fsvars
    /\ UNCHANGED mvars
    /\ UNCHANGED dvars
    /\ UNCHANGED cvars
    /\ UNCHANGED <<cst, other, arg, res, constraints, is_required, last, prev, nops,
                   fields, bindings>>

\* fields[i].bind(value), on the stored interface field
BindCall ==
    /\ \E i \in 1..Len(fields), value \in BindValues :
          \E r \in {InterfaceField_bind(fields[i].field, value)} :
              outcome' = [NoOutcome EXCEPT !.op = "bind", !.raised = r.raised,
                                           !.returned = r.returned, !.bound = r.field,
                                           !.target = fields[i].field, !.value = value]
    /\ UNCHANGED fsvars
    /\ UNCHANGED mvars
    /\ UNCHANGED dvars
    /\ UNCHANGED cvars
    /\ UNCHANGED <<cst, other, arg, res, constraints, is_required, last, prev, nops,
                   fields, bindings>>

\* fields.to_list()[i].bind(value), on the copy to_list() returns
BindCopyCall ==
    /\ \E i \in 1..Len(fields), value \in BindValues :
          \E copy \in {FieldSet_to_list(fields)[i]} :
              \E r \in {InterfaceField_bind(copy, value)} :
                  outcome' = [NoOutcome EXCEPT !.op = "bind_copy", !.raised = r.raised,
                                               !.returned = r.returned, !.bound = r.field,
                                               !.target = fields[i].field, !.value = value]
    /\ UNCHANGED fsvars
    /\ UNCHANGED mvars
    /\ UNCHANGED dvars
    /\ UNCHANGED cvars
    /\ UNCHANGED <<cst, other, arg, res, constraints, is_required, last, prev, nops,
                   fields, bindings>>

NextInterface == ValidateCall \/ BindCall \/ BindCopyCall

SpecInterface == InitInterface /\ [][NextInterface]_vars

\* ------------------------------------------------------------------------
\* SpecFieldSet: one FieldSet of fields, add and to_list() on it, and
\* assignments to its fields and to the copies to_list() returned
\* ------------------------------------------------------------------------
MaxFieldOps == 3

StringFieldA == NewField("StringField", <<"test_string">>, None, FALSE, <<>>)

\* The lists handed to FieldSet(fields).
FieldSetLists ==
    {<<NewField("BooleanField", <<"test_boolean">>, None, FALSE, <<>>)>>,
     <<StringFieldA, NewField("BooleanField", <<"test_boolean">>, None, FALSE, <<>>)>>,
     <<NewField("ModelIdField", <<"test_id">>, None, FALSE, <<>>), StringFieldA>>}

\* The fields constructed and handed to add.
AddedFields ==
    {NewField("StringField", <<"test_string">>, PyStr("x"), TRUE, <<>>),
     NewField("DateField", <<"test_date">>, None, FALSE, <<>>)}

\* The values assigned to a field's value, and the name assigned to a copy.
AssignedValues == {PyBool(TRUE), PyInt(1)}
AssignedNames == {<<"renamed">>}

InitFieldSet ==
    /\ \E list \in FieldSetLists :
          \E b \in {BuildFieldSet(EmptyHeap, <<>>, list)} :
              /\ heap = b.heap
              /\ fieldset = b.entries
              /\ sibling = FieldSet_add_objects(b.heap, <<>>, FieldIds(b.entries))
    /\ copies = <<>> /\ fsout = NoFsOut /\ fsops = 0
    /\ ConstraintIdle
    /\ ValidatorIdle
    /\ InterfaceIdle
    /\ ModelIdle
    /\ DeserializerIdle
    /\ ClientIdle

\* The bookkeeping every operation shares: h, entries and list are what the
\* operation leaves.
FsStep(op, key, present, idx, h, entries, list) ==
    /\ fsops < MaxFieldOps
    /\ heap' = h
    /\ fieldset' = entries
    /\ copies' = list
    /\ fsout' = [op |-> op, key |-> key, present |-> present, idx |-> idx,
                 before |-> SetState(heap, fieldset),
                 sibling |-> SetState(heap, sibling)]
    /\ UNCHANGED sibling
    /\ fsops' = fsops + 1
    /\ UNCHANGED mvars
    /\ UNCHANGED dvars
    /\ UNCHANGED cvars
    /\ UNCHANGED <<cst, other, arg, res, constraints, is_required, last, prev, nops,
                   fields, bindings, outcome>>

\* field_set.add(fields=SomeField(...)) with a newly constructed field
AddNew ==
    \E field \in AddedFields :
        \E g \in {AllocField(heap, field)} :
            FsStep("add", field.name, field.name \in Keys(fieldset), 0,
                   g, FieldSet__add(g, fieldset, Len(g.f)), copies)

\* field_set.add(fields=field) with the very field the set already holds
AddAgain ==
    \E i \in 1..Len(fieldset) :
        FsStep("add", fieldset[i].key, TRUE, i,
               heap, FieldSet__add(heap, fieldset, fieldset[i].fid), copies)

\* field_set.to_list()
ToList ==
    \E r \in {ToListLoop(heap, fieldset, <<>>)} :
        FsStep("to_list", <<>>, FALSE, 0, r.heap, fieldset, r.list)

\* copy.value = v, copy.name = n and copy.is_required = b on a field that
\* to_list() returned
CopyAssignValue ==
    \E i \in 1..Len(copies), v \in AssignedValues :
        FsStep("copy.value", <<>>, FALSE, i,
               Field_set_value(heap, copies[i], v), fieldset, copies)

CopyAssignName ==
    \E i \in 1..Len(copies), n \in AssignedNames :
        FsStep("copy.name", <<>>, FALSE, i,
               Field_set_name(heap, copies[i], n), fieldset, copies)

CopyAssignIsRequired ==
    \E i \in 1..Len(copies), b \in BOOLEAN :
        FsStep("copy.is_required", <<>>, FALSE, i,
               Field_set_is_required(heap, copies[i], b), fieldset, copies)

\* field_set[name].value = v and field_set[name].is_required = b
FieldAssignValue ==
    \E i \in 1..Len(fieldset), v \in AssignedValues :
        FsStep("field.value", fieldset[i].key, TRUE, i,
               Field_set_value(heap, fieldset[i].fid, v), fieldset, copies)

FieldAssignIsRequired ==
    \E i \in 1..Len(fieldset), b \in BOOLEAN :
        FsStep("field.is_required", fieldset[i].key, TRUE, i,
               Field_set_is_required(heap, fieldset[i].fid, b), fieldset, copies)

\* field_set[name].name = n: a rename of a field obtained through get()
FieldAssignName ==
    \E i \in 1..Len(fieldset), n \in AssignedNames \cup {<<"test_string">>} :
        FsStep("field.name", fieldset[i].key, TRUE, i,
               Field_set_name(heap, fieldset[i].fid, n), fieldset, copies)

\* field_set.remove(fields=f) with a field f the set holds
RemoveField ==
    \E i \in 1..Len(fieldset) :
        FsStep("remove", heap.f[fieldset[i].fid].name, TRUE, i,
               heap, FieldSet__remove(fieldset, heap.f[fieldset[i].fid].name), copies)

\* field_set.remove(fields=name) with a str
RemoveName ==
    \E name \in {<<"test_string">>, <<"renamed">>} :
        FsStep("remove", name, name \in Keys(fieldset), 0,
               heap, FieldSet__remove(fieldset, name), copies)

\* field_set.clear()
ClearSet == FsStep("clear", <<>>, FALSE, 0, heap, <<>>, copies)

NextFieldSet ==
    \/ AddNew \/ AddAgain \/ ToList
    \/ CopyAssignValue \/ CopyAssignName \/ CopyAssignIsRequired
    \/ FieldAssignValue \/ FieldAssignIsRequired
    \/ FieldAssignName \/ RemoveField \/ RemoveName \/ ClearSet

SpecFieldSet == InitFieldSet /\ [][NextFieldSet]_vars

\* ------------------------------------------------------------------------
\* SpecModel: one model instance m, assignments to its attributes,
\* m = type(m).from_dict(data), and the round trip through to_dict
\* ------------------------------------------------------------------------
MaxModelOps == 2

ModelClasses == {"Model", "FormTemplate", "Scale", "Level", "Auth", "Widget"}

Item(k, v) == [k |-> k, v |-> v]

\* The attributes handed to Widget(attributes).
WidgetAttributes ==
    {<<>>,
     <<Item(<<"type">>, PyStr("text"))>>,
     <<Item(<<"name">>, PyStr("q")), Item(<<"value">>, PyInt(1))>>}

\* Two objects held by other models: a Widget and a Model(id=3).
WidgetObject == PyObject(Widget__init__(10, <<Item(<<"type">>, PyStr("text"))>>).inst)
ModelObject == PyObject(setattr(Default("Model", 11), <<"id">>, PyInt(3)).inst)

\* The values assigned to attributes.
ModelValues ==
    {None, PyStr("2020-01-02"), PyDate(2),
     PyList(<<WidgetObject>>), ModelObject,
     PyDictOf(<<Item(<<"when">>, PyDateTime(1))>>),
     PyList(<<PyDate(1), PyList(<<PyDate(1)>>)>>)}

\* The dicts handed to from_dict.
DataDicts ==
    {<<>>,
     <<Item(<<"id">>, PyInt(1)), Item(<<"unknown">>, PyStr("x"))>>,
     <<Item(<<"date">>, PyStr("2020-01-02")), Item(<<"unknown">>, PyStr("x")),
       Item(<<"planned">>, PyBool(TRUE))>>,
     <<Item(<<"date">>, PyStr("x"))>>,
     <<Item(<<"name">>, PyStr("x")), Item(<<"widgets">>, None)>>,
     <<Item(<<"values">>, None), Item(<<"name">>, PyStr("x"))>>,
     <<Item(<<"widgets">>, PyList(<<WidgetObject>>))>>,
     <<Item(<<"type">>, PyStr("text"))>>,
     <<Item(<<"attributes">>, PyList(<<>>))>>,
     <<Item(<<"_", "id">>, PyInt(1))>>,
     <<Item(<<"to", "_", "json">>, PyInt(1))>>,
     <<Item(<<"user">>, ModelObject), Item(<<"school", "_", "id">>, PyInt(1))>>}

InitModel ==
    /\ \E cls \in ModelClasses, attributes \in WidgetAttributes :
          model = IF cls = "Widget" THEN Widget__init__(1, attributes).inst
                  ELSE Default(cls, 1)
    /\ mres = NoMres /\ mops = 0
    /\ ConstraintIdle
    /\ ValidatorIdle
    /\ InterfaceIdle
    /\ FieldSetIdle
    /\ DeserializerIdle
    /\ ClientIdle

ModelStep(r, result) ==
    /\ mops < MaxModelOps
    /\ model' = r.inst
    /\ mres' = result
    /\ mops' = mops + 1
    /\ UNCHANGED fsvars
    /\ UNCHANGED dvars
    /\ UNCHANGED cvars
    /\ UNCHANGED <<cst, other, arg, res, constraints, is_required, last, prev, nops,
                   fields, bindings, outcome>>

\* m.key = value, for a property of m's class
Assign ==
    \E i \in 1..Len(Properties(model.cls)), value \in ModelValues :
        \E r \in {setattr(model, Properties(model.cls)[i], value)} :
            ModelStep(r, [NoMres EXCEPT !.op = "setattr",
                                        !.key = Properties(model.cls)[i],
                                        !.data = <<Item(Properties(model.cls)[i], value)>>,
                                        !.exc = r.exc])

\* widget.set(key, value): self.__attributes[key] = value, then
\* self.__setattr__(key, value)
WidgetSet ==
    /\ model.cls = "Widget"
    /\ \E key \in {<<"type">>, <<"value">>}, value \in {PyStr("x"), None} :
          \E r \in {setattr([model EXCEPT !.vars =
                                ItemsSet(model.vars, Widget__attributes,
                                         PyDictOf(ItemsSet(ItemsGet(model.vars,
                                                                    Widget__attributes).l,
                                                           key, value)))],
                            key, value)} :
              ModelStep(r, [NoMres EXCEPT !.op = "set", !.key = key,
                                          !.data = <<Item(key, value)>>,
                                          !.exc = r.exc])

\* m = type(m).from_dict(data); m stays what it was when from_dict raises
FromDict ==
    \E data \in DataDicts :
        \E r \in {JSONModel_from_dict(model.cls, model.id + 1, data)} :
            ModelStep([inst |-> IF r.exc = "" THEN r.inst ELSE model],
                      [NoMres EXCEPT !.op = "from_dict", !.data = data, !.exc = r.exc])

\* type(m).from_dict(m.to_dict()).to_dict() next to m.to_dict()
RoundTrip ==
    /\ \E r \in {JSONModel_from_dict(model.cls, model.id + 1, JSONModel_to_dict(model))} :
          mres' = [NoMres EXCEPT !.op = "round_trip",
                                 !.exc = r.exc,
                                 !.first = JSONModel_to_dict(model),
                                 !.second = JSONModel_to_dict(r.inst)]
    /\ UNCHANGED <<model, mops>>
    /\ UNCHANGED fsvars
    /\ UNCHANGED dvars
    /\ UNCHANGED cvars
    /\ UNCHANGED <<cst, other, arg, res, constraints, is_required, last, prev, nops,
                   fields, bindings, outcome>>

\* m.to_json(), m.to_dict() before and after it, and m.to_json() again
ToJson ==
    ModelStep([inst |-> AfterToJson(model)],
              [NoMres EXCEPT !.op = "to_json",
                             !.first = JSONModel_to_dict(model),
                             !.second = JSONModel_to_dict(AfterToJson(model)),
                             !.json = JSONModel_to_json(model),
                             !.again = JSONModel_to_json(AfterToJson(model))])

NextModel == Assign \/ WidgetSet \/ FromDict \/ RoundTrip \/ ToJson

SpecModel == InitModel /\ [][NextModel]_vars

\* ------------------------------------------------------------------------
\* SpecDeserializer: one payload dict and repeated deserialize(data) calls
\* of one deserializer on it
\* ------------------------------------------------------------------------
MaxCalls == 2

Deserializers ==
    {"Form", "OnlineApplication", "FormTemplate", "ConferenceReport", "Lesson",
     "Group", "Area", "LessonSet", "Auth"}

\* The keys a payload of each kind may carry, with well-formed values.
PayloadItems(cls) ==
    CASE cls \in {"Form", "OnlineApplication"} ->
            <<Item(<<"id">>, PyInt(1)), Item(<<"state">>, PyStr("x")),
              Item(<<"fields">>, PyDictOf(<<Item(<<"q">>, PyStr("a"))>>))>>
      [] cls = "FormTemplate" ->
            <<Item(<<"id">>, PyInt(1)), Item(<<"name">>, PyStr("x")),
              Item(<<"widgets">>, PyList(<<PyDictOf(<<Item(<<"type">>, PyStr("text"))>>)>>))>>
      [] cls = "ConferenceReport" ->
            <<Item(<<"id">>, PyInt(1)), Item(<<"child", "_", "id">>, PyInt(1)),
              Item(<<"data">>, PyList(<<PyDictOf(<<Item(<<"type">>, PyStr("text"))>>)>>))>>
      [] cls = "Lesson" ->
            <<Item(<<"id">>, PyInt(1)), Item(<<"profile", "_", "photo">>, PyStr("x")),
              Item(<<"material", "_", "name">>, PyStr("y")),
              Item(<<"children">>, PyList(<<>>))>>
      [] cls = "Group" ->
            <<Item(<<"id">>, PyInt(1)),
              Item(<<"children">>,
                   PyList(<<PyDictOf(<<Item(<<"id">>, PyInt(1)),
                                       Item(<<"children">>, PyList(<<>>))>>)>>)),
              Item(<<"lessons">>,
                   PyList(<<PyDictOf(<<Item(<<"id">>, PyInt(1)),
                                       Item(<<"profile", "_", "photo">>, PyStr("x"))>>)>>))>>
      [] cls = "Area" ->
            <<Item(<<"id">>, PyInt(1)), Item(<<"name">>, PyStr("x")),
              Item(<<"children">>,
                   PyList(<<PyDictOf(<<Item(<<"id">>, PyInt(1)),
                                       Item(<<"children">>, PyList(<<>>)),
                                       Item(<<"lessons">>, PyList(<<>>))>>)>>))>>
      [] cls = "LessonSet" ->
            <<Item(<<"id">>, PyInt(1)),
              Item(<<"scales">>, PyDictOf(<<Item(<<"x">>, PyList(<<PyInt(1)>>))>>)),
              Item(<<"children">>,
                   PyList(<<PyDictOf(<<Item(<<"id">>, PyInt(1)),
                                       Item(<<"children">>, PyList(<<>>))>>)>>))>>
      [] OTHER ->
            <<Item(<<"school", "_", "id">>, PyInt(1)), Item(<<"api", "_", "token">>, PyStr("x")),
              Item(<<"id">>, PyInt(1)), Item(<<"email">>, PyStr("y"))>>

\* The payloads of a kind: every selection of its keys, sparse ones included.
Payloads(cls) ==
    {SelectSeq(PayloadItems(cls), LAMBDA e : e.k \in keys) :
        keys \in SUBSET {PayloadItems(cls)[i].k : i \in 1..Len(PayloadItems(cls))}}

InitDeserializer ==
    /\ deser \in Deserializers
    /\ payload \in Payloads(deser)
    /\ dres = [NoDres EXCEPT !.orig = payload]
    /\ dcalls = 0
    /\ ConstraintIdle
    /\ ValidatorIdle
    /\ InterfaceIdle
    /\ FieldSetIdle
    /\ ModelIdle
    /\ ClientIdle

\* XDeserializer().deserialize(data=payload)
Deserialize ==
    /\ dcalls < MaxCalls
    /\ \E r \in {deserialize(deser, dcalls + 1, payload)} :
          /\ payload' = r.data
          /\ dres' = [orig |-> dres.orig, before |-> payload,
                      exc |-> r.exc, inst |-> r.inst,
                      exc1 |-> IF dcalls = 0 THEN r.exc ELSE dres.exc1,
                      inst1 |-> IF dcalls = 0 THEN r.inst ELSE dres.inst1]
    /\ dcalls' = dcalls + 1
    /\ UNCHANGED deser
    /\ UNCHANGED fsvars
    /\ UNCHANGED mvars
    /\ UNCHANGED cvars
    /\ UNCHANGED <<cst, other, arg, res, constraints, is_required, last, prev, nops,
                   fields, bindings, outcome>>

NextDeserializer == Deserialize

SpecDeserializer == InitDeserializer /\ [][NextDeserializer]_vars

\* ------------------------------------------------------------------------
\* SpecSerializer: serialize and batch of one Serializer on model instances
\* ------------------------------------------------------------------------
Entry(k, path) == [k |-> k, str |-> FALSE, path |-> path]
StrEntry(k, key) == [k |-> k, str |-> TRUE, path |-> <<key>>]

\* The mappings handed to Serializer(mapping): flat ones as the concrete
\* serializers declare, and nested key paths.
Mappings ==
    {<<StrEntry(<<"id">>, <<"id">>), StrEntry(<<"name">>, <<"name">>),
       StrEntry(<<"date">>, <<"date">>), StrEntry(<<"widgets">>, <<"fields">>)>>,
     <<Entry(<<"id">>, <<<<"meta">>, <<"id">>>>), StrEntry(<<"type">>, <<"kind">>),
       Entry(<<"name">>, <<<<"meta">>, <<"label">>>>),
       Entry(<<"date">>, <<<<"meta">>, <<"when">>, <<"day">>>>)>>,
     <<Entry(<<"user">>, <<<<"a">>, <<"b">>, <<"c">>>>), StrEntry(<<"missing">>, <<"z">>),
       Entry(<<"planned">>, <<<<"flag">>>>), Entry(<<"values">>, <<<<"a">>, <<"values">>>>)>>}

\* The instances serialized: what from_dict builds from the data dicts, and
\* Widgets.
Serialized ==
    {r.inst : r \in {q \in {JSONModel_from_dict(cls, 1, data) :
                                 cls \in ModelClasses \ {"Widget"}, data \in DataDicts} :
                         q.exc = ""}}
    \cup {Widget__init__(1, attributes).inst : attributes \in WidgetAttributes}

InitSerializer ==
    /\ model \in Serialized
    /\ mres = NoMres /\ mops = 0
    /\ ConstraintIdle
    /\ ValidatorIdle
    /\ InterfaceIdle
    /\ FieldSetIdle
    /\ DeserializerIdle
    /\ ClientIdle

\* Serializer(mapping).serialize(obj=m)
Serialize ==
    \E mapping \in Mappings :
        \E r \in {Serializer_serialize(mapping, model)} :
            ModelStep([inst |-> AfterToJson(model)],
                      [NoMres EXCEPT !.op = "serialize", !.mapping = mapping,
                                     !.json = JSONModel_to_json(model),
                                     !.exc = r.exc, !.out = r.value])

\* Serializer(mapping).batch(objs=m) and batch(objs=[...]) with m and a
\* second instance
SerializeBatch ==
    \E mapping \in Mappings, second \in {setattr(Default("Model", 2), <<"id">>, PyInt(3)).inst} :
        \E objs \in {<<model>>, <<second, model>>, <<model, second>>} :
            \E r \in {Serializer_batch(mapping, objs)} :
                ModelStep([inst |-> AfterToJson(model)],
                          [NoMres EXCEPT !.op = "batch", !.mapping = mapping,
                                         !.objs = objs, !.exc = r.exc, !.out = r.value])

NextSerializer == Serialize \/ SerializeBatch

SpecSerializer == InitSerializer /\ [][NextSerializer]_vars

\* ------------------------------------------------------------------------
\* SpecClient: one Client, the public methods called on it one after the
\* other, each running through __submit, authenticate, __get_context,
\* __request and __access step by step, and the server answering
\* ------------------------------------------------------------------------
\* The pages a paginated call may be made to fetch.
MaxPages == 2

Emails == {PyStr("a@x"), None}
Passwords == {PyStr("pw"), PyStr("pw2")}
Tokens == {PyStr("t1"), PyStr("t2")}

\* The public methods called, with valid, missing and invalid arguments.
Calls ==
    {get_user(PyInt(7))}
    \cup {get_lesson_set(PyInt(3), format) : format \in {PyStr("short"), PyStr("bad"), None}}
    \cup {get_levels(child_id, None) : child_id \in {PyInt(1), PyStr("x"), None}}

Errors == Response("errors", <<>>, 0)

\* What the server may answer to the request of frame f.
Responses(f) ==
    {Errors} \cup
    CASE f.cls = "Auth" ->
            {Response("dict", <<Item(<<"api", "_", "token">>, t), Item(<<"id">>, PyInt(7)),
                                Item(<<"email">>, PyStr("a@x"))>>, 0) : t \in Tokens}
      [] f.cls = "User" ->
            {Response("dict", <<Item(<<"id">>, PyInt(7)),
                                Item(<<"roles">>, PyList(<<PyStr("admin")>>))>>, 0)}
      [] f.cls = "LessonSet" ->
            {Response("dict", <<Item(<<"id">>, PyInt(3)),
                                Item(<<"children">>, PyList(<<>>))>>, 0)}
      [] OTHER ->
            {Response("list", <<Item(<<"child", "_", "id">>, PyInt(1))>>, n) :
                 n \in {0, 1} \cup (IF f.parameters[<<"page">>].n < 10 * MaxPages
                                    THEN {max_per_page} ELSE {})}

notclient ==
    <<cst, other, arg, res, constraints, is_required, last, prev, nops,
      fields, bindings, outcome, heap, fieldset, copies, sibling, fsout, fsops,
      model, mres, mops, payload, deser, dres, dcalls>>

InitClient ==
    /\ \E email \in Emails, masquerade_id \in {None, PyInt(5)} :
          client = Client(email, PyStr("pw"), masquerade_id, None)
    /\ stack = <<>>
    /\ wire = <<>>
    /\ ConstraintIdle
    /\ ValidatorIdle
    /\ InterfaceIdle
    /\ FieldSetIdle
    /\ ModelIdle
    /\ DeserializerIdle

Top == stack[Len(stack)]
Below == stack[Len(stack) - 1]
Running(fn, pc) == stack # <<>> /\ Top.fn = fn /\ Top.pc = pc
Replaced(frame) == [stack EXCEPT ![Len(stack)] = frame]
Logged(event) == Append(wire, event)

\* An exception no frame catches ends the call.
Raise(ep, exc) ==
    /\ stack' = <<>>
    /\ wire' = Logged([NoEvent EXCEPT !.ev = "raise", !.ep = ep, !.exc = exc])
    /\ UNCHANGED client

\* client.email = value, client.password = value
Assign_email ==
    /\ stack = <<>>
    /\ \E value \in Emails : client' = Client_set(client, "email", value)
    /\ wire' = <<[NoEvent EXCEPT !.ev = "assign", !.held = Client_token(client) # None]>>
    /\ UNCHANGED stack
    /\ UNCHANGED notclient

Assign_password ==
    /\ stack = <<>>
    /\ \E value \in Passwords : client' = Client_set(client, "password", value)
    /\ wire' = <<[NoEvent EXCEPT !.ev = "assign", !.held = Client_token(client) # None]>>
    /\ UNCHANGED stack
    /\ UNCHANGED notclient

\* One of the public get methods is called.
Request ==
    /\ stack = <<>>
    /\ \E call \in Calls :
          /\ stack' = <<call>>
          /\ wire' = <<[NoEvent EXCEPT !.ev = "call", !.ep = call.model_type,
                                       !.held = Client_token(client) # None,
                                       !.token = Client_token(client)]>>
    /\ UNCHANGED client
    /\ UNCHANGED notclient

\* client.authenticate() is called.
Authenticate ==
    /\ stack = <<>>
    /\ stack' = <<AuthenticateFrame>>
    /\ wire' = <<[NoEvent EXCEPT !.ev = "call", !.ep = "authenticate",
                                 !.held = Client_token(client) # None,
                                 !.token = Client_token(client)]>>
    /\ UNCHANGED client
    /\ UNCHANGED notclient

\* Client.__submit, first statement: without a token, and unless this is
\* the authenticate request, authenticate() runs first.
Submit ==
    /\ Running("call", "submit")
    /\ stack' = IF Client_token(client) = None /\ Top.model_type # "authenticate"
                THEN Append(Replaced([Top EXCEPT !.pc = "context"]), AuthenticateFrame)
                ELSE Replaced([Top EXCEPT !.pc = "context"])
    /\ UNCHANGED <<client, wire>>
    /\ UNCHANGED notclient

\* Client.authenticate, first statement: the authenticate request.
AuthenticateGet ==
    /\ Running("authenticate", "get")
    /\ stack' = Append(Replaced([Top EXCEPT !.pc = "auth"]), AuthenticateCall(client))
    /\ UNCHANGED <<client, wire>>
    /\ UNCHANGED notclient

\* Client.authenticate, second statement: get_user of the user's id.
AuthenticateGetUser ==
    /\ Running("authenticate", "get_user")
    /\ stack' = Append(Replaced([Top EXCEPT !.pc = "user"]),
                       get_user(getattr(InstanceOf(getattr(InstanceOf(client.auth),
                                                           <<"user">>)), <<"id">>)))
    /\ UNCHANGED <<client, wire>>
    /\ UNCHANGED notclient

\* Client.__submit: the entry point is routed to and __get_context
\* validates the headers and the parameters.
GetContext ==
    /\ Running("call", "context")
    /\ \E entry_point \in {API_route(Top.model_type, Top.behavior)} :
          IF entry_point = NoEntryPoint
          THEN Raise("", "EntrypointNotFoundException")
          ELSE \E context \in {Client__get_context(client, entry_point, Top.parameters,
                                                   Top.route_parameters)} :
                  IF context.raised # ""
                  THEN Raise(entry_point.name, context.raised)
                  ELSE /\ stack' = Replaced([Top EXCEPT !.pc = "request",
                                                        !.context = context])
                       /\ wire' = Logged([NoEvent EXCEPT !.ev = "validated",
                                              !.ep = entry_point.name,
                                              !.headers = Client_headers(client),
                                              !.parameters = Top.parameters])
                       /\ UNCHANGED client
    /\ UNCHANGED notclient

\* Client.__request: the HTTP call is made and the server answers.
HttpRequest ==
    /\ Running("call", "request")
    /\ \E data \in Responses(Top) :
          stack' = Replaced([Top EXCEPT !.pc = "access", !.data = data])
    /\ wire' = Logged([Client__request(Top.context) EXCEPT
                          !.ep = API_route(Top.model_type, Top.behavior).name,
                          !.token = Client_token(client)])
    /\ UNCHANGED client
    /\ UNCHANGED notclient

\* The value returned to the frame below: authenticate stores the Auth
\* object, then the user in it; the method the user called returns.
Return(inst) ==
    IF Len(stack) = 1
    THEN /\ stack' = <<>>
         /\ wire' = Logged([NoEvent EXCEPT !.ev = "return"])
         /\ UNCHANGED client
    ELSE IF Below.pc = "auth"
    THEN /\ client' = [client EXCEPT !.auth = PyObject(inst)]
         /\ stack' = Append(SubSeq(stack, 1, Len(stack) - 2),
                            [Below EXCEPT !.pc = "get_user"])
         /\ wire' = Logged([NoEvent EXCEPT !.ev = "authenticated",
                                !.token = getattr(inst, <<"api", "_", "token">>)])
    ELSE /\ client' = [client EXCEPT !.auth =
                          PyObject(setattr(InstanceOf(client.auth), <<"user">>,
                                           PyObject(inst)).inst)]
         /\ stack' = SubSeq(stack, 1, Len(stack) - 2)
         /\ wire' = IF Len(stack) = 2 THEN Logged([NoEvent EXCEPT !.ev = "return"])
                    ELSE wire

\* Client.__access with the response: an errors body raises, anything else
\* is deserialized; Client.__batch asks for the next page after a full one.
Access ==
    /\ Running("call", "access")
    /\ IF Top.data.kind = "errors"
       THEN Raise(API_route(Top.model_type, Top.behavior).name, "EndpointException")
       ELSE \E r \in {Parsed(Top.cls, Len(stack), Top.data)} :
               IF r.exc # ""
               THEN Raise(API_route(Top.model_type, Top.behavior).name, r.exc)
               ELSE IF Top.paginated /\ ~(Top.data.n < max_per_page)
               THEN /\ stack' = Replaced([Top EXCEPT
                                   !.pc = "submit",
                                   !.parameters = DictSet(Top.parameters, <<"page">>,
                                        PyInt((Top.parameters[<<"page">>].n \div 10) + 1))])
                    /\ UNCHANGED <<client, wire>>
               ELSE Return(r.inst)
    /\ UNCHANGED notclient

NextClient ==
    \/ Assign_email
    \/ Assign_password
    \/ Request
    \/ Authenticate
    \/ Submit
    \/ AuthenticateGet
    \/ AuthenticateGetUser
    \/ GetContext
    \/ HttpRequest
    \/ Access

SpecClient == InitClient /\ [][NextClient]_vars

\* ------------------------------------------------------------------------
\* Claims
\* ------------------------------------------------------------------------
\* The base names of the contained fields whose looked-up binding fails the
\* field's validator in non-strict mode.
FailingKeys ==
    {fields[i].field.base.name : i \in
        {j \in 1..Len(fields) :
            Validator_is_valid(fields[j].field.base.validator.constraints,
                               BindingOf(fields[j], bindings), FALSE) = "False"}}

\* C1: validate(bindings) raises InterfaceValidationError naming the base
\* name of a failing field whenever the value looked up for some contained
\* field fails that field's non-strict is_valid; an invalid value is never
\* dropped silently.
C1_ValidateRaisesOnInvalid ==
    (outcome.op = "validate" /\ FailingKeys # {})
        => (outcome.raised = "InterfaceValidationError" /\ outcome.field \in FailingKeys)

\* The pairs (k, bindings[k]) with k the base name of a contained field and
\* bindings[k] not None.
BoundPairs ==
    [k \in {fields[i].field.base.name : i \in
               {j \in 1..Len(fields) : BindingOf(fields[j], bindings) # None}}
        |-> bindings[k]]

\* C2: when validate(bindings) returns, its result holds exactly the pairs
\* (k, bindings[k]) with k the base name of a contained field and bindings[k]
\* not None.
C2_ValidateResultExact ==
    (outcome.op = "validate" /\ outcome.raised = "") => outcome.result = BoundPairs

\* C3: is_valid(v, strict=True) never returns False: it returns True
\* exactly when the non-strict call returns True, and raises otherwise.
C3_StrictNeverReturnsFalse ==
    (res.op = "is_valid" /\ res.strict)
        => /\ res.out # "False"
           /\ (res.out = "True") <=> (is_valid(cst, arg, FALSE).out = "True")

\* The values Constraint.is_valid treats as None: None, and for a
\* SelectionConstraint the empty list.
TreatedAsNone(c, value) ==
    value = None \/ (c.kind = "SelectionConstraint" /\ value = PyList(<<>>))

\* C4: for every constraint subtype and both values of nullable,
\* is_valid(None) is True when nullable, and when not nullable it is False
\* (non-strict) or raises NullFieldException (strict); the subtype predicate
\* is not consulted; a SelectionConstraint treats [] like None.
C4_NoneHandling ==
    (res.op = "is_valid" /\ TreatedAsNone(cst, arg))
        => /\ ~res.consulted
           /\ res.out = IF cst.nullable THEN "True"
                        ELSE IF res.strict THEN "NullFieldException" ELSE "False"

C4_Witness ==
    /\ res.op = "is_valid" /\ res.strict
    /\ cst.kind = "SelectionConstraint" /\ ~cst.nullable
    /\ arg = PyList(<<>>)
    /\ res.out = "NullFieldException"

\* C5: bind(v) on an interface field wrapping a base field of type T and
\* name n (the stored field or its to_list() copy) returns, when v passes
\* strict validation, a Field of type T named n holding v, and raises the
\* constraint exception when v fails.
C5_BindReturnsTypedField ==
    (outcome.op \in {"bind", "bind_copy"})
        => IF InterfaceField_is_valid(outcome.target, outcome.value, FALSE) = "True"
           THEN /\ outcome.returned = "Field"
                /\ outcome.bound.type = outcome.target.base.type
                /\ outcome.bound.name = outcome.target.base.name
                /\ outcome.bound.value = outcome.value
           ELSE outcome.raised \in ConstraintException

HasKind(list, kind) == \E i \in 1..Len(list) : list[i].kind = kind

\* C6: after is_required = True the validator contains an IsRequired
\* constraint (added at the end when none was there), every contained
\* constraint has nullable False, is_valid(None) is False and
\* is_valid(None, strict=True) raises NullFieldException.
C6_SetRequired ==
    (last.op = "is_required" /\ last.flag)
        => /\ is_required
           /\ Validator__contains__(constraints, IsRequired) = "True"
           /\ ~HasKind(last.before.constraints, "IsRequired")
                 => /\ Len(constraints) = Len(last.before.constraints) + 1
                    /\ constraints[Len(constraints)] = IsRequired
           /\ \A i \in 1..Len(constraints) : ~constraints[i].nullable
           /\ Validator_is_valid(constraints, None, FALSE) = "False"
           /\ Validator_is_valid(constraints, None, TRUE) = "NullFieldException"

C6_Witness ==
    /\ last.op = "is_required" /\ last.flag
    /\ last.before = State(<<IsGreaterThan(PyInt(10), TRUE)>>, FALSE, "")
    /\ constraints = <<IsGreaterThan(PyInt(10), FALSE), IsRequired>>

\* C7: for a validator without an IsRequired constraint, is_required = True
\* followed by is_required = False leaves no IsRequired constraint, the
\* original length, nullable True everywhere, and a validator equal to a
\* fresh one holding the original constraints.
C7_UnsetReverses ==
    (/\ last.op = "is_required" /\ ~last.flag
     /\ prev.op = "is_required" /\ prev.flag
     /\ ~HasKind(prev.before.constraints, "IsRequired"))
        => /\ ~HasKind(constraints, "IsRequired")
           /\ Len(constraints) = Len(prev.before.constraints)
           /\ \A i \in 1..Len(constraints) : constraints[i].nullable
           /\ Validator__eq__(constraints,
                  Validator(ToggleNullable(prev.before.constraints, FALSE),
                            FALSE).constraints) = "True"

\* C8: in every reachable state no two constraints of the validator are
\* equal (==).
C8_DuplicateFree ==
    \A i, j \in 1..Len(constraints) :
        i # j => Eq(constraints[i], constraints[j]) # "True"

InSeq(x, seq) == \E i \in 1..Len(seq) : seq[i] = x

\* C9: add skips a constraint equal to one already contained; adding an
\* IsRequired constraint to a non-required validator sets is_required to
\* True with nullable False on every contained constraint; removing
\* IsRequired from a required validator that contains it removes it and sets
\* is_required to False.
C9_AddRemoveIsRequired ==
    /\ (/\ last.op = "add"
        /\ \A i \in 1..Len(last.args) :
               ListContains(last.before.constraints, last.args[i]) = "True")
           => constraints = last.before.constraints
    /\ (last.op = "add" /\ InSeq(IsRequired, last.args) /\ ~last.before.is_required)
           => /\ is_required
              /\ \A i \in 1..Len(constraints) : ~constraints[i].nullable
    /\ (/\ last.op = "remove" /\ InSeq(IsRequired, last.args)
        /\ last.before.is_required
        /\ ListContains(last.before.constraints, IsRequired) = "True")
           => /\ ~is_required
              /\ Validator__contains__(constraints, IsRequired) = "False"

OptionSet(c) == {c.options[i] : i \in 1..Len(c.options)}

\* Two constraints of the same subtype with identical configuration.
SameConfig(c1, c2) ==
    /\ c1.kind = c2.kind
    /\ c1.nullable = c2.nullable
    /\ c1.min_value = c2.min_value
    /\ OptionSet(c1) = OptionSet(c2)
    /\ c1.data_type = c2.data_type
    /\ c1.exception_type = c2.exception_type

\* C10: two constraints of the same subtype and configuration are equal and
\* hash equal; two constraints that differ in subtype, nullable or any
\* configuration value are unequal.
C10_EqHashByConfig ==
    (res.op = "eq")
        => IF SameConfig(cst, other)
           THEN res.eq = "True" /\ res.hasheq = "True"
           ELSE res.eq = "False"

\* Position of the first item of items that no option both equals and
\* matches in exact type (0 when there is none).
FirstOffending(c, items) ==
    IF \E i \in 1..Len(items) :
           ~\E j \in 1..Len(c.options) :
                PyEq(c.options[j], items[i]) /\ c.options[j].t = items[i].t
    THEN CHOOSE i \in 1..Len(items) :
           /\ ~\E j \in 1..Len(c.options) :
                  PyEq(c.options[j], items[i]) /\ c.options[j].t = items[i].t
           /\ \A k \in 1..(i - 1) :
                  \E j \in 1..Len(c.options) :
                      PyEq(c.options[j], items[k]) /\ c.options[j].t = items[k].t
    ELSE 0

\* C11: for a value that is neither None nor the empty list,
\* SelectionConstraint.is_valid is True iff every element of the value
\* (wrapped as a one-element list when it is not a list) equals an option of
\* exactly the same type; with options [0, True, "x"] the values 1 and False
\* are rejected and 0 and True accepted; in strict mode the
\* SelectionValueError raised carries the first offending element.
C11_SelectionExactType ==
    (res.op = "is_valid" /\ cst.kind = "SelectionConstraint" /\ ~TreatedAsNone(cst, arg))
        => /\ (res.out = "True") <=> (FirstOffending(cst, ValueList(arg)) = 0)
           /\ res.out \in {"True", IF res.strict THEN "SelectionValueError" ELSE "False"}
           /\ res.out = "SelectionValueError"
                 => SelectionLoop(cst, ValueList(arg), TRUE).value
                        = ValueList(arg)[FirstOffending(cst, ValueList(arg))]
           /\ cst.options = MixedOptions
                 => /\ arg \in {PyInt(1), PyBool(FALSE)} => res.out # "True"
                    /\ arg \in {PyInt(0), PyBool(TRUE)} => res.out = "True"

\* A strict call on the list [1, False] against the options [0, True, "x"]
\* raised SelectionValueError.
C11_Witness ==
    /\ res.op = "is_valid" /\ res.strict
    /\ cst.kind = "SelectionConstraint" /\ cst.options = MixedOptions
    /\ arg = PyList(<<PyInt(1), PyBool(FALSE)>>)
    /\ res.out = "SelectionValueError"

\* C11 as stated, for every value: is_valid is True iff every element of
\* the wrapped value equals an option of exactly the same type.
C11_AsStated ==
    (res.op = "is_valid" /\ cst.kind = "SelectionConstraint")
        => ((res.out = "True") <=> (FirstOffending(cst, ValueList(arg)) = 0))

Rejected(exc) == res.out = IF res.strict THEN exc ELSE "False"

\* C14: IsPositiveInteger rejects 0 (strict: NotGreaterThanValueError),
\* accepts 1, rejects -5 (strict: NotGreaterThanValueError, the value being
\* an integer that is not greater than 0) and rejects 3.3 (strict:
\* IntegerValueError).
C14_PositiveInteger ==
    (res.op = "is_valid" /\ cst.kind = "IsPositiveInteger")
        => /\ arg = PyInt(0) => Rejected("NotGreaterThanValueError")
           /\ arg = PyInt(1) => res.out = "True"
           /\ arg = PyInt(-5) => Rejected("NotGreaterThanValueError")
           /\ arg = PyFloat(33) => Rejected("IntegerValueError")

\* IsPositiveInteger().is_valid(-5, strict=True) raised.
C14_Witness ==
    /\ res.op = "is_valid" /\ res.strict /\ cst.kind = "IsPositiveInteger"
    /\ arg = PyInt(-5) /\ Raises(res.out)

\* C14 as stated: -5 and 3.3 both raise IntegerValueError in strict mode.
C14_AsStated ==
    (res.op = "is_valid" /\ cst.kind = "IsPositiveInteger")
        => /\ arg = PyInt(0) => Rejected("NotGreaterThanValueError")
           /\ arg = PyInt(1) => res.out = "True"
           /\ arg \in {PyInt(-5), PyFloat(33)} => Rejected("IntegerValueError")

\* Position in list of the first constraint whose is_valid(value, strict)
\* does not return True (0 when every constraint returns True).
FirstFailing(list, value, strict) ==
    IF \E i \in 1..Len(list) : is_valid(list[i], value, strict).out # "True"
    THEN CHOOSE i \in 1..Len(list) :
           /\ is_valid(list[i], value, strict).out # "True"
           /\ \A k \in 1..(i - 1) : is_valid(list[k], value, strict).out = "True"
    ELSE 0

\* C15: Validator.is_valid(v) is True iff every contained constraint's
\* is_valid(v) is True, an empty validator accepting every value; in strict
\* mode what propagates is what the first failing constraint in insertion
\* order raised, whatever the constraints after it would do; the call
\* changes nothing in the validator.
C15_ValidatorIsValid ==
    last.op = "is_valid"
        => /\ ~last.strict =>
                last.out = Bool(\A i \in 1..Len(constraints) :
                                   is_valid(constraints[i], last.value, FALSE).out = "True")
           /\ constraints = <<>> => last.out = "True"
           /\ (last.strict /\ FirstFailing(constraints, last.value, TRUE) = 0)
                => last.out = "True"
           /\ (last.strict /\ FirstFailing(constraints, last.value, TRUE) # 0)
                => last.out = is_valid(constraints[FirstFailing(constraints, last.value, TRUE)],
                                       last.value, TRUE).out
           /\ State(constraints, is_required, "") = last.before

\* A strict call on a validator holding an IsString constraint before an
\* IsGreaterThan constraint, with a value both reject.
C15_Witness ==
    /\ last.op = "is_valid" /\ last.strict /\ last.value = PyBool(TRUE)
    /\ Len(constraints) >= 2
    /\ constraints[1].kind = "IsString" /\ HasKind(constraints, "IsGreaterThan")
    /\ last.out = "StringValueError"

\* Every constraint of l1 is equal (==) to some constraint of l2.
SubsetByEq(l1, l2) ==
    \A i \in 1..Len(l1) : \E j \in 1..Len(l2) : Eq(l1[i], l2[j]) = "True"

\* C16: v1 == v2 is True when the two validators hold the same set of
\* constraints and False when they do not, whatever the order of
\* insertion, and v2 == v1 gives the same answer.
C16_ValidatorEqSymmetric ==
    last.op = "eq"
        => /\ last.out = Bool(SubsetByEq(constraints, last.args)
                               /\ SubsetByEq(last.args, constraints))
           /\ last.out = Validator__eq__(last.args, constraints)

\* The values the tests call invalid for a required BooleanField, among
\* those a field of the set can hold.
NotBooleans == {PyInt(1), PyInt(0), PyFloat(33), PyList(<<>>), PyDict, PyDate(1), None}

\* C13: a BooleanField that is not required is valid when it holds the
\* native boolean True or False or None; once required it is invalid when it
\* holds 1, 0, another number, a list, a dict, a date or None.
C13_BooleanFieldNative ==
    \A i \in 1..Len(fieldset) :
        heap.f[fieldset[i].fid].type = "BooleanField"
            => /\ (~FieldOf(heap, fieldset[i].fid).validator.is_required
                    /\ heap.f[fieldset[i].fid].value \in {PyBool(TRUE), PyBool(FALSE), None})
                      => Field_is_valid(heap, fieldset[i].fid, FALSE) = "True"
               /\ (FieldOf(heap, fieldset[i].fid).validator.is_required
                    /\ heap.f[fieldset[i].fid].value \in NotBooleans)
                      => Field_is_valid(heap, fieldset[i].fid, FALSE) = "False"

\* C17: add of a field whose name is already a key of the set leaves the
\* length as it was and the field stored under that name, with its value
\* and validator, the one that was there.
C17_AddKeepsExisting ==
    (fsout.op = "add" /\ fsout.present)
        => /\ Len(fieldset) = fsout.before.len
           /\ \A i \in 1..Len(fieldset) :
                  fieldset[i].key = fsout.key
                      => FieldOf(heap, fieldset[i].fid) = fsout.before.fields[i].field

\* C18: to_list() returns one copy per contained field, a new object equal
\* (==) to the field stored at the same place; assigning value, name or
\* is_required on a returned copy leaves the fields of the set, its
\* to_json() and the validity of its fields as they were.
C18_ToListIndependent ==
    /\ fsout.op = "to_list"
          => /\ Len(copies) = Len(fieldset)
             /\ \A i \in 1..Len(copies) :
                    /\ Field__eq__(FieldOf(heap, copies[i]),
                                   FieldOf(heap, fieldset[i].fid)) = "True"
                    /\ copies[i] # fieldset[i].fid
    /\ fsout.op \in {"copy.value", "copy.name", "copy.is_required"}
          => SetState(heap, fieldset) = fsout.before

\* is_required was assigned on a copy of a field of the set whose own
\* is_required is still False.
C18_Witness ==
    /\ fsout.op = "copy.is_required" /\ fsout.idx \in 1..Len(copies)
    /\ fsout.idx \in 1..Len(fieldset)
    /\ FieldOf(heap, copies[fsout.idx]).validator.is_required
    /\ ~FieldOf(heap, fieldset[fsout.idx].fid).validator.is_required

\* C19: for any model instance m, type(m).from_dict(m.to_dict()).to_dict()
\* equals m.to_dict(): the round trip through the dict representation
\* returns, and returns a dict equal to the one it started from.
C19_RoundTrip ==
    mres.op = "round_trip" => mres.exc = "" /\ DictEq(mres.second, mres.first)

\* What from_dict leaves of one item of data on an instance whose class has
\* the attributes of default: the value the setter stores under _key for a
\* property, the value itself for any other attribute, nothing for a key
\* that names no attribute.
ItemAssigned(inst, default, item) ==
    IF IsProperty(inst.cls, item.k)
    THEN /\ ItemsHas(inst.vars, <<"_">> \o item.k)
         /\ ItemsGet(inst.vars, <<"_">> \o item.k) = Setter(inst.cls, item.k, item.v).value
    ELSE IF hasattr(default, item.k)
        THEN ItemsHas(inst.vars, item.k) /\ ItemsGet(inst.vars, item.k) = item.v
    ELSE ~ItemsHas(inst.vars, item.k) /\ ~ItemsHas(inst.vars, <<"_">> \o item.k)

\* The entry of an instance's __dict__ is one a key of data names, or it is
\* the entry the constructor left.
NamedOrDefault(entry, default, data) ==
    \/ \E i \in 1..Len(data) :
          hasattr(default, data[i].k) /\ entry.k \in {data[i].k, <<"_">> \o data[i].k}
    \/ ItemsHas(default.vars, entry.k) /\ ItemsGet(default.vars, entry.k) = entry.v

C21_ToJsonPure ==
    mres.op = "to_json"
        => /\ DictEq(mres.second, mres.first)
           /\ DictEq(mres.again, mres.json)

\* C22: deserialize(data) leaves data unchanged, and a second deserialize on
\* the same dict succeeds and yields an object with the same to_dict() as
\* the first.
C22_DeserializePure ==
    /\ (dcalls >= 1 /\ dres.exc = "") => DictEq(payload, dres.before)
    /\ (dcalls = 2 /\ dres.exc1 = "")
          => /\ dres.exc = ""
             /\ DictEq(JSONModel_to_dict(dres.inst), JSONModel_to_dict(dres.inst1))

\* The attribute of the result a key of the payload feeds.
AttributeFed(cls, key) ==
    CASE key = <<"children">> /\ cls = "Group" -> <<"subgroups">>
      [] key = <<"children">> /\ cls = "Area" -> <<"groups">>
      [] key = <<"children">> /\ cls = "LessonSet" -> <<"areas">>
      [] key = <<"data">> -> <<"widgets">>
      [] key = <<"profile", "_", "photo">> -> <<"photo">>
      [] key = <<"material", "_", "name">> -> <<"material">>
      [] OTHER -> key

\* C23: deserialize(data) does not raise on a payload that lacks optional
\* keys, and the attribute a missing key feeds is None or an empty list.
C23_DeserializeTotal ==
    dcalls = 1
        => /\ dres.exc = ""
           /\ \A i \in 1..Len(PayloadItems(deser)) :
                  (/\ ~ItemsHas(dres.orig, PayloadItems(deser)[i].k)
                   /\ ItemsHas(dres.inst.vars,
                               <<"_">> \o AttributeFed(deser, PayloadItems(deser)[i].k)))
                      => ItemsGet(dres.inst.vars,
                                  <<"_">> \o AttributeFed(deser, PayloadItems(deser)[i].k))
                             \in {None, PyList(<<>>)}

\* The mapping entries whose source value in data is not None.
Placed(mapping, data) ==
    {i \in 1..Len(mapping) : ItemsGetOr(data, mapping[i].k, None) # None}

RECURSIVE OnlyDestinations(_, _, _, _)
\* Every key of the dict value, reached from the result by the key path at,
\* is a destination of a placed entry or lies on the way to one.
OnlyDestinations(value, at, mapping, data) ==
    \A i \in 1..Len(value.l) :
        \/ \E e \in Placed(mapping, data) : mapping[e].path = Append(at, value.l[i].k)
        \/ /\ \E e \in Placed(mapping, data) :
                  /\ Len(mapping[e].path) > Len(at) + 1
                  /\ SubSeq(mapping[e].path, 1, Len(at) + 1) = Append(at, value.l[i].k)
           /\ value.l[i].v.t = "dict"
           /\ OnlyDestinations(value.l[i].v, Append(at, value.l[i].k), mapping, data)

\* C24: serialize(obj) returns a dict that holds, for each mapping entry
\* whose value in obj.to_json() is not None, that value at the destination
\* (a key, or a key path with its intermediate dicts), and no other key;
\* batch(objs) returns serialize of each element, in order.
C24_Serialize ==
    /\ mres.op = "serialize"
          => /\ mres.exc = ""
             /\ \A e \in Placed(mres.mapping, mres.json) :
                    PyEq(get_from_dict(mres.out, mres.mapping[e].path),
                         ItemsGet(mres.json, mres.mapping[e].k))
             /\ OnlyDestinations(mres.out, <<>>, mres.mapping, mres.json)
    /\ mres.op = "batch"
          => /\ mres.exc = ""
             /\ Len(mres.out.l) = Len(mres.objs)
             /\ \A i \in 1..Len(mres.objs) :
                    /\ \A e \in Placed(mres.mapping, JSONModel_to_json(mres.objs[i])) :
                           PyEq(get_from_dict(mres.out.l[i], mres.mapping[e].path),
                                ItemsGet(JSONModel_to_json(mres.objs[i]), mres.mapping[e].k))
                    /\ OnlyDestinations(mres.out.l[i], <<>>, mres.mapping,
                                        JSONModel_to_json(mres.objs[i]))

\* A Level with a date was serialized under a mapping with nested paths:
\* the date string sits two dicts deep and the absent name left no key.
C24_Witness ==
    /\ mres.op = "serialize" /\ model.cls = "Level"
    /\ get_from_dict(mres.out, <<<<"meta">>, <<"when">>, <<"day">>>>) = PyStr("2020-01-02")
    /\ get_from_dict(mres.out, <<<<"meta">>, <<"label">>>>) = None
    /\ ItemsHas(mres.json, <<"planned">>)

\* The entry point of a name.
EntryPointNamed(name) == CHOOSE e \in api : e.name = name

\* Strict validation of every field of the field set lets the value looked
\* up for it through: no exception.
StrictlyValid(entries, dict) ==
    \A i \in 1..Len(entries) :
        ~Raises(Validator_is_valid(entries[i].field.base.validator.constraints,
                                   BindingOf(entries[i], dict), TRUE))

\* What left for the server of the parameters: the query parameters and the
\* basic-auth pair.
Sent(event) ==
    IF event.auth = <<>> THEN event.parameters
    ELSE DictSet(DictSet(event.parameters, <<"email">>, event.auth[1]),
                 <<"password">>, event.auth[2])

\* C25: every HTTP call the client makes comes directly after the strict
\* validation of the client's headers and the request's parameters against
\* the interface of the entry point it goes to, that validation raised
\* nothing, and what is sent is what validate returned; when validation ends
\* in InterfaceValidationError no HTTP call goes to that entry point.
C25_ValidateBeforeRequest ==
    \A i \in 1..Len(wire) :
        /\ wire[i].ev = "http"
              => /\ i > 1
                 /\ wire[i - 1].ev = "validated"
                 /\ wire[i - 1].ep = wire[i].ep
                 /\ StrictlyValid(EntryPointNamed(wire[i].ep).interface.headers,
                                  wire[i - 1].headers)
                 /\ StrictlyValid(EntryPointNamed(wire[i].ep).interface.parameters,
                                  wire[i - 1].parameters)
                 /\ wire[i].headers =
                        InterfaceFieldSet_validate(
                            EntryPointNamed(wire[i].ep).interface.headers,
                            wire[i - 1].headers).result
                 /\ Sent(wire[i]) =
                        InterfaceFieldSet_validate(
                            EntryPointNamed(wire[i].ep).interface.parameters,
                            wire[i - 1].parameters).result
        /\ (wire[i].ev = "raise" /\ wire[i].exc = "InterfaceValidationError")
              => /\ i = Len(wire)
                 /\ stack = <<>>
                 /\ \A j \in 1..Len(wire) :
                        ~(wire[j].ev = "http" /\ wire[j].ep = wire[i].ep)

\* The second page of get_levels has been requested.
C25_Witness ==
    \E i \in 1..Len(wire) :
        /\ wire[i].ev = "http"
        /\ wire[i].ep = "LIST_LEVELS"
        /\ wire[i].parameters[<<"page">>] = PyInt(2)

\* The token obtained last before event i of the call: that of the last
\* authenticate exchange of the call, or the one held when it began.
TokenAt(i) ==
    IF \E j \in 1..(i - 1) : wire[j].ev = "authenticated"
    THEN wire[CHOOSE j \in 1..(i - 1) :
                  /\ wire[j].ev = "authenticated"
                  /\ \A k \in (j + 1)..(i - 1) : wire[k].ev # "authenticated"].token
    ELSE wire[1].token

\* C30: a request other than authenticate made without a token is sent only
\* after an authenticate request has been sent and answered with a token,
\* and carries that token in X-TransparentClassroomToken; a request made
\* with a token held sends no authenticate request and carries the token
\* held; after an assignment to email or password no token is held.
C30_Session ==
    /\ \A i \in 1..Len(wire) :
          (wire[i].ev = "http" /\ wire[i].ep # "AUTH")
              => /\ TokenAt(i) # None
                 /\ Lookup(wire[i].headers, TokenHeader) = TokenAt(i)
                 /\ wire[1].held
                       \/ \E j \in 1..(i - 1), k \in 1..(i - 1) :
                             /\ j < k
                             /\ wire[j].ev = "http" /\ wire[j].ep = "AUTH"
                             /\ wire[k].ev = "authenticated"
    /\ (wire # <<>> /\ wire[1].ev = "call" /\ wire[1].ep # "authenticate" /\ wire[1].held)
          => \A i \in 1..Len(wire) : ~(wire[i].ev = "http" /\ wire[i].ep = "AUTH")
    /\ (wire # <<>> /\ wire[1].ev = "assign") => Client_token(client) = None
    /\ (wire # <<>> /\ wire[1].ev = "call")
          => wire[1].held = (wire[1].token # None)

\* get_lesson_set, called without a token, has been sent with the token t2
\* the authenticate exchange of the call obtained.
C30_Witness ==
    /\ wire # <<>>
    /\ wire[1].ev = "call"
    /\ ~wire[1].held
    /\ \E i \in 1..Len(wire) :
          /\ wire[i].ev = "http"
          /\ wire[i].ep = "GET_LESSON_SET"
          /\ Lookup(wire[i].headers, TokenHeader) = PyStr("t2")

\* C26: in every state of a Validator, is_required is True exactly when an
\* IsRequired constraint with nullable False is contained, no contained
\* IsRequired constraint has nullable True, and a required validator's
\* is_valid(None) is False.
C26_RequiredInvariant ==
    /\ is_required <=> \E i \in 1..Len(constraints) :
                          constraints[i].kind = "IsRequired" /\ ~constraints[i].nullable
    /\ \A i \in 1..Len(constraints) :
          constraints[i].kind = "IsRequired" => ~constraints[i].nullable
    /\ is_required => Validator_is_valid(constraints, None, FALSE) = "False"

\* C27: the copy of a validator is equal (==) to it, has its is_required
\* and gives its is_valid result for every value, and the validator is left
\* as it was.
C27_CopyEqual ==
    (last.op = "copy" /\ last.raised = "")
        => /\ last.out = "True"
           /\ last.flag = is_required
           /\ \A value \in ValidatorValues, strict \in BOOLEAN :
                 Validator_is_valid(last.args, value, strict)
                     = Validator_is_valid(constraints, value, strict)
           /\ State(constraints, is_required, "") = last.before

\* C28: an assignment to the value or to is_required of a field obtained
\* through get() on one field set leaves what get(), to_json() and validation
\* give on a second set built from the same list of field objects as it was.
C28_Isolated ==
    fsout.op \in {"field.value", "field.is_required"}
        => SetState(heap, sibling) = fsout.sibling

\* C29: every key of a field set is the current name of the field stored
\* under it, so get(f.name) is f for every stored field f, and to_json() has
\* len(set) entries.
C29_KeysAreNames ==
    /\ \A i \in 1..Len(fieldset) :
          /\ fieldset[i].key = heap.f[fieldset[i].fid].name
          /\ FieldSet_get(fieldset, heap.f[fieldset[i].fid].name) = fieldset[i].fid
    /\ Cardinality(DOMAIN FieldSet_to_json(heap, fieldset)) = Len(fieldset)
    /\ (fsout.op = "remove" /\ fsout.idx > 0) => Len(fieldset) = fsout.before.len - 1

====
